---- MODULE Spec2Model ----
(***************************************************************************)
(* A model of the numerical core of lsst.cp.pipe.bfCoeffCalc.BfTask:       *)
(* _generateKernel, _SOR, _tileArray, _iterativeRegression, estimateGains, *)
(* _prepareImage, _crossCorrelate and run.                                 *)
(*                                                                         *)
(* Floating-point values are modelled as exact rationals <<n, d>> in       *)
(* lowest terms with d > 0.  Two-dimensional numpy arrays are sequences of *)
(* rows; the numpy index [i, j] (0-based) is the element [i+1][j+1].       *)
(***************************************************************************)
EXTENDS Integers, Sequences, FiniteSets, TLC

(***************************************************************************)
(* Bounds of the model.                                                    *)
(***************************************************************************)
\* the largest number of samples handed to one _generateKernel call
MaxSamples == 2
\* the largest number of visit pairs handed to run
MaxVisits == 2
\* the largest maxIter argument (full iterations) handed directly to _SOR
MaxIterSOR == 2
\* the value of config.maxIterSOR (the default, 10000, is out of reach)
CfgMaxIterSOR == 1
\* the largest side of a source array handed directly to _SOR
MaxSide == 2
\* the largest number of non-zero entries of such a source array
MaxNonZero == 2
\* the largest number of points handed to _iterativeRegression
MaxPoints == 4
\* the largest maxIter argument handed to _iterativeRegression
MaxIterReg == 2
\* the largest number of rows or columns of an array handed to _tileArray alone
MaxTileSide == 3
\* the number of rows and of columns of an amplifier's bounding box
AmpSide == 3
\* the largest pixel offset of an exposure handed to _prepareImage
MaxPixel == 2
MaxLagCC == 2

(***************************************************************************)
(* Rational arithmetic: the model of Python/numpy float arithmetic.        *)
(***************************************************************************)
Abs(a) == IF a < 0 THEN -a ELSE a

RECURSIVE Gcd(_, _)
Gcd(a, b) == IF b = 0 THEN a ELSE Gcd(b, a % b)

Norm(n, d) ==
    LET g == Gcd(Abs(n), Abs(d))
        s == IF d < 0 THEN -1 ELSE 1
    IN  <<(s * n) \div g, (s * d) \div g>>

Zero == <<0, 1>>
One == <<1, 1>>
Quarter == <<1, 4>>
RInt(k) == <<k, 1>>

RNeg(a) == <<-a[1], a[2]>>
RAbs(a) == <<Abs(a[1]), a[2]>>

RAdd(a, b) ==
    LET g == Gcd(a[2], b[2])
        l == (a[2] \div g) * b[2]
    IN  Norm(a[1] * (l \div a[2]) + b[1] * (l \div b[2]), l)

RSub(a, b) == RAdd(a, RNeg(b))

RMul(a, b) ==
    LET g1 == Gcd(Abs(a[1]), b[2])
        g2 == Gcd(Abs(b[1]), a[2])
    IN  <<(a[1] \div g1) * (b[1] \div g2), (a[2] \div g2) * (b[2] \div g1)>>

\* a / b for b # 0
RDiv(a, b) ==
    RMul(a, IF b[1] < 0 THEN <<-b[2], -b[1]>> ELSE <<b[2], b[1]>>)

RLt(a, b) ==
    LET g == Gcd(a[2], b[2])
        l == (a[2] \div g) * b[2]
    IN  a[1] * (l \div a[2]) < b[1] * (l \div b[2])

RGt(a, b) == RLt(b, a)

\* the sum of a sequence, by halves (the sum of exact rationals does not
\* depend on the order of the additions)
RECURSIVE RSumSeq(_)
RSumSeq(s) ==
    IF Len(s) = 0 THEN Zero
    ELSE IF Len(s) = 1 THEN s[1]
    ELSE RAdd(RSumSeq(SubSeq(s, 1, Len(s) \div 2)),
              RSumSeq(SubSeq(s, Len(s) \div 2 + 1, Len(s))))

(***************************************************************************)
(* numpy arrays.                                                           *)
(***************************************************************************)
\* a sequence given by a function constructor, as an explicit tuple
Tuple(s) == s \o <<>>

Side(arr) == Len(arr)

At(arr, i, j) == arr[i + 1][j + 1]

\* row with row[j] = v
PutRow(row, j, v) == SubSeq(row, 1, j) \o <<v>> \o SubSeq(row, j + 2, Len(row))

\* arr with arr[i, j] = v
Put(arr, i, j, v) ==
    SubSeq(arr, 1, i) \o <<PutRow(arr[i + 1], j, v)>> \o SubSeq(arr, i + 2, Len(arr))

\* np.zeros((n, n))
Zeros(n) == Tuple([i \in 1..n |-> Tuple([j \in 1..n |-> Zero])])

\* np.sum(arr)
ArrSum(arr) == RSumSeq(Tuple([i \in 1..Len(arr) |-> RSumSeq(arr[i])]))

\* np.abs(arr)
ArrAbs(arr) == Tuple([i \in 1..Len(arr) |-> Tuple([j \in 1..Len(arr[i]) |-> RAbs(arr[i][j])])])

\* range(a, b, 2) as a sequence
Range2(a, b) ==
    Tuple([k \in 1..(IF b > a THEN (b - a + 1) \div 2 ELSE 0) |-> a + 2 * (k - 1)])

\* the (i, j) of "for i in rs: for j in cs:", in the order the loops visit them
Pairs(rs, cs) ==
    Tuple([k \in 1..(Len(rs) * Len(cs)) |->
              <<rs[((k - 1) \div Len(cs)) + 1], cs[((k - 1) % Len(cs)) + 1]>>])

(***************************************************************************)
(* _tileArray                                                              *)
(***************************************************************************)
\* a variant of TileWrite: in_array read at [j, i]
TileWriteTransposed(output, in_array, length, i, j) ==
    LET v  == At(in_array, j, i)
        o1 == Put(output, i + length, j + length, v)
        o2 == Put(o1, length - i, j + length, v)
        o3 == Put(o2, i + length, length - j, v)
    IN  Put(o3, length - i, length - j, v)

\* a variant of TileWrite: the two assignments to the columns left of the
\* center left out
TileWriteRight(output, in_array, length, i, j) ==
    LET v  == At(in_array, i, j)
        o1 == Put(output, i + length, j + length, v)
    IN  Put(o1, length - i, j + length, v)

\* the four assignments of the loop body for one (i, j)
TileWrite(output, in_array, length, i, j) ==
    LET v  == At(in_array, i, j)
        o1 == Put(output, i + length, j + length, v)
        o2 == Put(o1, length - i, j + length, v)
        o3 == Put(o2, i + length, length - j, v)
    IN  Put(o3, length - i, length - j, v)

RECURSIVE TileLoop(_, _, _, _, _)
TileLoop(output, in_array, length, cells, k) ==
    IF k > Len(cells) THEN output
    ELSE LET written == TileWrite(output, in_array, length, cells[k][1], cells[k][2])
         IN  IF Len(written) = Len(output)
             THEN TileLoop(written, in_array, length, cells, k + 1)
             ELSE written

\* _tileArray for a square in_array
TileArray(in_array) ==
    LET length == Side(in_array) - 1
        idx    == Tuple([k \in 1..(length + 1) |-> k - 1])
    IN  TileLoop(Zeros(2 * length + 1), in_array, length, Pairs(idx, idx), 1)

\* a variant of IsSquare: arrays with more columns than rows pass
IsSquareOrWide(in_array) == Len(in_array) <= Len(in_array[1])

\* in_array.shape[0] == in_array.shape[1]
IsSquare(in_array) == Len(in_array) = Len(in_array[1])

(***************************************************************************)
(* State.                                                                  *)
(***************************************************************************)
VARIABLES
    config,      \* self.config: the fields the modelled methods read
    \* _SOR
    source,      \* the source argument
    maxIter,     \* maxIter after defaulting
    eLevel,      \* eLevel after defaulting
    func,        \* the working grid
    resid,       \* the residual grid
    inError,     \* the initial residual sum
    outError,    \* the residual sum computed by the last loop body
    nIter,       \* the loop counter
    omega,       \* the relaxation factor
    halfSweeps,  \* the number of loop bodies executed so far
    sorLog,      \* "none", "warn" (log.warn called) or "info" (log.info called)
    sorOut,      \* the value returned, <<>> until then
    sorPc,       \* "idle", "loop", "log" or "returned"
    \* _generateKernel
    means,       \* the means argument: a sequence of <<mean1, mean2>>
    corrs,       \* the corrs argument: the caller's arrays, modified in place
    corrsIn,     \* the value of corrs when _generateKernel was called
    rejectLevelIn, \* rejectLevel as passed by the caller (0: absent)
    rejectLevel, \* rejectLevel after defaulting
    corrNum,     \* the index (0-based) of the next sample of the loop
    xcorrList,   \* the stack of retained full surfaces
    fullCorr,    \* the last tiled surface, <<>> while unbound
    meanXcorr,   \* the per-pixel clipped mean, <<>> until computed
    gkWarns,     \* the log.warn calls of the loop: <<corrNum, "sign" or "xcorr">>
    gkKernel,    \* the value returned, <<>> until then
    gkPc,        \* "idle", "loop", "sor", "returned", "raised" (RuntimeError)
                 \* or "asserted" (the AssertionError of _tileArray)
    \* run
    xcorrs,      \* region -> sequence of quarter arrays
    runMeans,    \* region -> sequence of <<mean1, mean2>>
    kernels,     \* region -> kernel, for the regions done so far
    visit,       \* the number of visit pairs processed
    nVisits,     \* the number of visit pairs passed in
    prepKeys,    \* the keys of _scaledMaskedIm1 of the current visit pair, in order
    regionIdx,   \* the index of the next region of the kernel loop
    stored,      \* what dataRef.put(kernels) received, <<>> while not called
    storedGains, \* what dataRef.put(gains, datasetType='bfGain') received, <<>> while not called
    runPc,       \* "idle", "gains", "estimate", "visits", "regions", "kernels", "call",
                 \* "done" or "raised"
    \* _iterativeRegression
    regXIn,      \* the x argument
    regYIn,      \* the y argument
    regFix,      \* the fixThroughOrigin argument
    regNSigma,   \* nSigmaClip after defaulting
    regMaxIter,  \* maxIter after defaulting
    regX,        \* the local x: the points still retained
    regY,        \* the local y
    regNIter,    \* nIter
    regSlope,    \* slope, Zero while unbound
    regIntercept,\* intercept, Zero while unbound
    regIndex,    \* the positions (0-based) the last pass flagged: np.where(...)[0]
    regLog,      \* the first log.debug of every pass: <<nIter, number of elements>>
    regOut,      \* the value returned, <<>> until then
    regPc,       \* "idle", "loop", "return" or "returned"
    \* estimateGains
    egPairs,     \* what _calcMeansAndVars returned for the visit pairs processed
    egNPairs,    \* len(visitPairs)
    ampMeans,    \* amplifier -> list of means
    ampVariances,   \* amplifier -> list of variances
    ampCoVariances, \* amplifier -> list of covariances
    egWarns,     \* the log.warn calls: <<visPairNum, amplifier, "sanity" or "dropped">>
    egAmp,       \* the index of the next amplifier of the fitting loop
    slopeFix,    \* slopeFix of the amplifier being fitted, Zero while unbound
    egGains,     \* gains: amplifier -> gain, for the amplifiers done so far
    egNomGains,  \* nomGains: amplifier -> nominal gain, for the amplifiers done so far
    egOut,       \* the value returned, <<>> until then
    egPc,        \* "idle", "visits", "fit", "fixed", "unfixed", "done" or "raised"
                 \* (by _calcMeansAndVars in the visit loop or by stats.linregress)
    \* _tileArray called on its own
    tileIn,      \* the caller's array object passed as in_array
    tileArg,     \* the value of that array when _tileArray was called
    tileOut,     \* the value returned, <<>> until then
    tilePc,      \* "idle", "called", "returned" or "raised" (AssertionError)
    \* _prepareImage
    piExp,       \* exp: the caller's exposure, amplifier -> the pixels of its bbox
    piGains,     \* gains: amplifier -> gain
    piLevel,     \* level
    piMi,        \* mi, the masked image of the clone, amplifier -> pixels
    piTemp,      \* temp, amplifier -> pixels
    piAmp,       \* the index of the next amplifier of the loop
    rescaleIm,   \* the amplifier whose bbox of mi rescaleIm views, "" while unbound
    piMeans,     \* means
    returnAreas, \* key -> the amplifier whose bbox of mi the stored view covers
    piOut,       \* the value returned, <<>> until then
    piPc,        \* "idle", "loop", "returned" or "raised"
    \* _crossCorrelate
    ccHeap,      \* the image objects: name -> pixels, indexed [x][y]
    diff,        \* the view the name diff denotes: an object and a bounding box
    dim0,        \* the view the name dim0 denotes
    xcorr,       \* the array of the correlations
    xlag,        \* the outer loop variable
    ylag,        \* the inner loop variable
    emptyStats,  \* what makeStatistics does on an image without pixels, in
                 \* _prepareImage as in _crossCorrelate: "raises" or "nan"
    ccOut,       \* the array returned, <<>> before the return
    ccPc         \* "idle", "diff", "background", "dim0", "loop", "returned", "raised"

sorVars == <<source, maxIter, eLevel, func, resid, inError, outError, nIter,
             omega, halfSweeps, sorLog, sorOut, sorPc>>

gkVars == <<means, corrs, corrsIn, rejectLevelIn, rejectLevel, corrNum, xcorrList, fullCorr,
            meanXcorr, gkWarns, gkKernel, gkPc>>

runVars == <<xcorrs, runMeans, kernels, visit, nVisits, prepKeys, regionIdx, stored, storedGains,
             runPc>>

regVars == <<regXIn, regYIn, regFix, regNSigma, regMaxIter, regX, regY, regNIter,
             regSlope, regIntercept, regIndex, regLog, regOut, regPc>>

egVars == <<egPairs, egNPairs, ampMeans, ampVariances, ampCoVariances, egWarns,
            egAmp, slopeFix, egGains, egNomGains, egOut, egPc>>

tileVars == <<tileIn, tileArg, tileOut, tilePc>>

piVars == <<piExp, piGains, piLevel, piMi, piTemp, piAmp, rescaleIm, piMeans,
            returnAreas, piOut, piPc>>

ccVars == <<ccHeap, diff, dim0, xcorr, xlag, ylag, emptyStats, ccOut, ccPc>>

vars == <<config, sorVars, gkVars, runVars, regVars, egVars, tileVars, piVars, ccVars>>

(***************************************************************************)
(* _SOR                                                                    *)
(***************************************************************************)
\* np.cos(np.pi/n)**2 (only the square of rhoSpe is ever used); exact for
\* the sides the model uses
RhoSpeSq(n) ==
    CASE n = 1 -> One
      [] n = 2 -> Zero
      [] n = 3 -> <<1, 4>>
      [] n = 4 -> <<1, 2>>
      [] n = 6 -> <<3, 4>>

\* func[i, j-1]+func[i, j+1]+func[i-1, j]+func[i+1, j]-4*func[i, j]-source[i-1, j-1]
Residual(f, src, i, j) ==
    RSub(RSub(RAdd(RAdd(RAdd(At(f, i, j - 1), At(f, i, j + 1)), At(f, i - 1, j)),
                   At(f, i + 1, j)),
              RMul(RInt(4), At(f, i, j))),
         At(src, i - 1, j - 1))

\* the initial error: resid over the interior of the all-zero grid
InitResid(f, src) ==
    Tuple([i \in 1..Side(f) |-> Tuple([j \in 1..Side(f) |->
        IF i = 1 \/ j = 1 \/ i = Side(f) \/ j = Side(f) THEN Zero
        ELSE Residual(f, src, i - 1, j - 1)])])

\* a variant of SweepCells: the two colours of the checkerboard exchanged
SweepCellsSwapped(n, m) ==
    IF n % 2 = 1
    THEN Pairs(Range2(1, m - 1), Range2(1, m - 1)) \o Pairs(Range2(2, m - 1), Range2(2, m - 1))
    ELSE Pairs(Range2(1, m - 1), Range2(2, m - 1)) \o Pairs(Range2(2, m - 1), Range2(1, m - 1))

\* the cells one loop body visits, in order: nIter even, then nIter odd
SweepCells(n, m) ==
    IF n % 2 = 0
    THEN Pairs(Range2(1, m - 1), Range2(1, m - 1)) \o Pairs(Range2(2, m - 1), Range2(2, m - 1))
    ELSE Pairs(Range2(1, m - 1), Range2(2, m - 1)) \o Pairs(Range2(2, m - 1), Range2(1, m - 1))

\* resid[i, j] = ...; func[i, j] += omega*resid[i, j]*.25
UpdateCell(fr, src, om, i, j) ==
    LET r == Residual(fr[1], src, i, j)
    IN  <<Put(fr[1], i, j, RAdd(At(fr[1], i, j), RMul(RMul(om, r), Quarter))),
          Put(fr[2], i, j, r)>>

RECURSIVE SweepLoop(_, _, _, _, _)
SweepLoop(fr, src, om, cells, k) ==
    IF k > Len(cells) THEN fr
    ELSE SweepLoop(UpdateCell(fr, src, om, cells[k][1], cells[k][2]), src, om, cells, k + 1)

\* a variant of Converged: <= in place of <
ConvergedLe(out, in, e) == ~RLt(RMul(in, e), out)

\* outError < inError*eLevel
Converged(out, in, e) == RLt(out, RMul(in, e))

\* a variant of NextOmega: omega changes only at the end of the second
\* half-sweep of a cycle
NextOmegaPerCycle(n, om, rhoSq) ==
    IF n % 2 = 0 THEN om
    ELSE IF n = 1
         THEN RDiv(One, RSub(One, RMul(rhoSq, <<1, 2>>)))
         ELSE RDiv(One, RSub(One, RMul(RMul(rhoSq, om), Quarter)))

\* the update of omega at the end of a loop body
NextOmega(n, om, rhoSq) ==
    IF n = 0
    THEN RDiv(One, RSub(One, RMul(rhoSq, <<1, 2>>)))
    ELSE RDiv(One, RSub(One, RMul(RMul(rhoSq, om), Quarter)))

\* a variant of Interior: the whole grid, boundary included
InteriorWhole(f) == f

\* func[1:-1, 1:-1]
Interior(f) ==
    Tuple([i \in 1..(Side(f) - 2) |-> Tuple([j \in 1..(Side(f) - 2) |-> f[i + 1][j + 1]])])

\* a variant of SORWarns: > in place of >=
SORWarnsGt(n, mi) == n > mi * 2

\* whether the code after the loop takes the log.warn branch
SORWarns(n, mi) == n >= mi * 2

\* the entry of _SOR up to the loop: the defaults, the grids, the initial error
SORCall(src, maxIterArg, eLevelArg) ==
    LET f == Zeros(Side(src) + 2)
        r == InitResid(f, src)
    IN  /\ source' = src
        /\ maxIter' = IF maxIterArg = 0 THEN config.maxIterSOR ELSE maxIterArg
        /\ eLevel' = IF eLevelArg = Zero THEN config.eLevelSOR ELSE eLevelArg
        /\ func' = f
        /\ resid' = r
        /\ inError' = ArrSum(ArrAbs(r))
        /\ outError' = Zero
        /\ nIter' = 0
        /\ omega' = One
        /\ halfSweeps' = 0
        /\ sorLog' = "none"
        /\ sorOut' = <<>>
        /\ sorPc' = "loop"

\* one body of "while nIter < maxIter*2"
SORSweep ==
    /\ sorPc = "loop"
    /\ nIter < maxIter * 2
    /\ LET fr  == SweepLoop(<<func, resid>>, source, omega,
                            SweepCells(nIter, Side(func)), 1)
           out == ArrSum(ArrAbs(fr[2]))
       IN  /\ func' = fr[1]
           /\ resid' = fr[2]
           /\ outError' = out
           /\ halfSweeps' = halfSweeps + 1
           /\ IF Converged(out, inError, eLevel)
              THEN /\ sorPc' = "log"
                   /\ UNCHANGED <<omega, nIter>>
              ELSE /\ omega' = NextOmega(nIter, omega, RhoSpeSq(Side(source)))
                   /\ nIter' = nIter + 1
                   /\ sorPc' = "loop"
    /\ UNCHANGED <<source, maxIter, eLevel, inError, sorLog, sorOut>>
    /\ UNCHANGED <<config, gkVars, runVars, regVars, egVars, tileVars, piVars, ccVars>>

\* the loop condition fails
SORExit ==
    /\ sorPc = "loop"
    /\ ~(nIter < maxIter * 2)
    /\ sorPc' = "log"
    /\ UNCHANGED <<source, maxIter, eLevel, func, resid, inError, outError, nIter,
                   omega, halfSweeps, sorLog, sorOut>>
    /\ UNCHANGED <<config, gkVars, runVars, regVars, egVars, tileVars, piVars, ccVars>>

\* the log call after the loop, and the return of func[1:-1, 1:-1]
SORLog ==
    /\ sorPc = "log"
    /\ sorLog' = IF SORWarns(nIter, maxIter) THEN "warn" ELSE "info"
    /\ sorOut' = Interior(func)
    /\ sorPc' = "returned"
    /\ UNCHANGED <<source, maxIter, eLevel, func, resid, inError, outError, nIter,
                   omega, halfSweeps>>
    /\ UNCHANGED <<config, gkVars, runVars, regVars, egVars, tileVars, piVars, ccVars>>

(***************************************************************************)
(* afwMath.makeStatistics(..., MEANCLIP / VARIANCECLIP, sctrl): the        *)
(* StatisticsEngine of the design, an iterative sigma clip: compute mean   *)
(* and variance, reject the values beyond nSigma standard deviations,      *)
(* repeat until nothing is rejected or the iteration cap is reached.       *)
(* The library computes in float64.  A value that lies exactly nSigma      *)
(* standard deviations from the mean is rejected or kept as the rounding   *)
(* of the two sides of the comparison falls: ClipIterAny gives every       *)
(* outcome, ClipIter the one that keeps all such values.                   *)
(***************************************************************************)
ClipIterCap == 3

RMean(s) == RDiv(RSumSeq(s), RInt(Len(s)))

RSq(a) == RMul(a, a)

RVariance(s) ==
    IF Len(s) < 2 THEN Zero
    ELSE RDiv(RSumSeq(Tuple([k \in 1..Len(s) |-> RSq(RSub(s[k], RMean(s)))])),
              RInt(Len(s) - 1))

\* the values of s within nSigma standard deviations of the mean of s
ClipOnce(s, nSigma) ==
    LET m == RMean(s)
        v == RVariance(s)
        Keep(x) == ~RGt(RSq(RSub(x, m)), RMul(RInt(nSigma * nSigma), v))
    IN  SelectSeq(s, Keep)

RECURSIVE ClipIter(_, _, _)
ClipIter(s, nSigma, k) ==
    IF k = 0 THEN s
    ELSE LET t == ClipOnce(s, nSigma)
         IN  IF Len(t) = Len(s) THEN s ELSE ClipIter(t, nSigma, k - 1)

\* x lies exactly nSigma standard deviations (of variance v) from m
OnBoundary(x, m, v, nSigma) ==
    v # Zero /\ RSq(RSub(x, m)) = RMul(RInt(nSigma * nSigma), v)

\* s without the positions of drop
Without(s, drop) ==
    LET pos == SelectSeq(Tuple([k \in 1..Len(s) |-> k]), LAMBDA k : k \notin drop)
    IN  Tuple([k \in 1..Len(pos) |-> s[pos[k]]])

\* what one clip can leave of s: the values beyond the boundary are rejected,
\* any of the values on it may be
ClipOnceAny(s, nSigma) ==
    LET m      == RMean(s)
        v      == RVariance(s)
        beyond == {k \in 1..Len(s) :
                      RGt(RSq(RSub(s[k], m)), RMul(RInt(nSigma * nSigma), v))}
        tied   == {k \in 1..Len(s) : OnBoundary(s[k], m, v, nSigma)}
    IN  {Without(s, beyond \cup t) : t \in SUBSET tied}

\* what the iterated clip can leave of s
RECURSIVE ClipIterAny(_, _, _)
ClipIterAny(s, nSigma, k) ==
    IF k = 0 THEN {s}
    ELSE UNION {IF Len(t) = Len(s) THEN {s} ELSE ClipIterAny(t, nSigma, k - 1) :
                   t \in ClipOnceAny(s, nSigma)}

\* the pairs <<MEANCLIP, VARIANCECLIP>> the statistics of s can be
ClipStats(s, nSigma) ==
    {<<RMean(t), RVariance(t)>> : t \in ClipIterAny(s, nSigma, ClipIterCap)}

\* MEANCLIP of s where no value of s lies on a clipping bound: the statistics
\* of _generateKernel, _prepareImage and _crossCorrelate clip at 4 or 5
\* standard deviations, which fewer than 18 values never reach
MeanClip(s, nSigma) == RMean(ClipIter(s, nSigma, ClipIterCap))

(***************************************************************************)
(* _generateKernel                                                         *)
(***************************************************************************)
\* corr[0, 0] -= (mean1+mean2)
SubtractMeans(corr, mean1, mean2) ==
    Put(corr, 0, 0, RSub(At(corr, 0, 0), RAdd(mean1, mean2)))

\* a variant of SignRejected: >= in place of >
SignRejectedGe(corr) == ~RLt(At(corr, 0, 0), Zero)

\* if corr[0, 0] > 0: the sample is skipped
SignRejected(corr) == RGt(At(corr, 0, 0), Zero)

\* corr /= -float(1.0*(mean1**2+mean2**2))
Normalise(corr, mean1, mean2) ==
    LET d == RNeg(RAdd(RSq(mean1), RSq(mean2)))
    IN  Tuple([i \in 1..Len(corr) |-> Tuple([j \in 1..Len(corr[i]) |-> RDiv(corr[i][j], d)])])

\* a variant of XcorrRejected: once a sample has been skipped, every later
\* sample fails the check
XcorrRejectedSticky(full, rl) ==
    LET num == RAbs(ArrSum(full))
        den == ArrSum(ArrAbs(full))
    IN  gkWarns # {} \/ (den # Zero /\ RGt(RDiv(num, den), rl))

\* a variant of XcorrRejected: >= in place of >
XcorrRejectedGe(full, rl) ==
    LET num == RAbs(ArrSum(full))
        den == ArrSum(ArrAbs(full))
    IN  den # Zero /\ ~RLt(RDiv(num, den), rl)

\* xcorrCheck > rejectLevel, with xcorrCheck = |sum(fullCorr)|/sum(|fullCorr|);
\* for an all-zero surface xcorrCheck is 0/0 = nan, and nan > rejectLevel is False
XcorrRejected(full, rl) ==
    LET num == RAbs(ArrSum(full))
        den == ArrSum(ArrAbs(full))
    IN  den # Zero /\ RGt(RDiv(num, den), rl)

\* np.transpose(xcorrList)[i, j]: axes reversed, so element k is xcorrList[k][j, i]
StackAt(stack, i, j) == Tuple([k \in 1..Len(stack) |-> At(stack[k], j, i)])

\* meanXcorr: zeros_like(fullCorr) filled with the clipped mean of each stack column
StackMean(stack, full) ==
    Tuple([i \in 1..Side(full) |-> Tuple([j \in 1..Side(full) |->
        MeanClip(StackAt(stack, i - 1, j - 1), config.nSigmaClipKernelGen)])])

\* the number of samples zip(means, corrs) yields
NumSamples == IF Len(means) < Len(corrs) THEN Len(means) ELSE Len(corrs)

\* a variant of DefaultedRejectLevel: the argument is used as passed
RejectLevelAsPassed(rl) == rl

\* if not rejectLevel: rejectLevel = self.config.xcorrCheckRejectLevel
DefaultedRejectLevel(rl) == IF rl = Zero THEN config.xcorrCheckRejectLevel ELSE rl

\* the entry of _generateKernel up to the loop
GKCall(ms, cs, rl) ==
    /\ means' = ms
    /\ corrs' = cs
    /\ corrsIn' = cs
    /\ rejectLevelIn' = rl
    /\ rejectLevel' = DefaultedRejectLevel(rl)
    /\ corrNum' = 0
    /\ xcorrList' = <<>>
    /\ fullCorr' = <<>>
    /\ meanXcorr' = <<>>
    /\ gkWarns' = {}
    /\ gkKernel' = <<>>
    /\ gkPc' = "loop"

\* one body of the loop over zip(means, corrs).  corr is changed in place
\* before self._tileArray(corr) is called, and _tileArray asserts that its
\* argument is square: the AssertionError leaves the loop with the sample
\* neither retained nor warned about.
GKSample ==
    /\ gkPc = "loop"
    /\ corrNum < NumSamples
    /\ LET mean1 == means[corrNum + 1][1]
           mean2 == means[corrNum + 1][2]
           c1    == SubtractMeans(corrs[corrNum + 1], mean1, mean2)
           c2    == Normalise(c1, mean1, mean2)
           full  == TileArray(c2)
       IN  IF SignRejected(c1)
           THEN /\ corrs' = [corrs EXCEPT ![corrNum + 1] = c1]
                /\ gkWarns' = gkWarns \cup {<<corrNum, "sign">>}
                /\ corrNum' = corrNum + 1
                /\ UNCHANGED <<fullCorr, xcorrList, gkPc>>
           ELSE IF ~IsSquare(c2)
           THEN /\ corrs' = [corrs EXCEPT ![corrNum + 1] = c2]
                /\ gkPc' = "asserted"
                /\ UNCHANGED <<fullCorr, xcorrList, gkWarns, corrNum>>
           ELSE /\ corrs' = [corrs EXCEPT ![corrNum + 1] = c2]
                /\ fullCorr' = full
                /\ corrNum' = corrNum + 1
                /\ UNCHANGED gkPc
                /\ IF XcorrRejected(full, rejectLevel)
                   THEN /\ gkWarns' = gkWarns \cup {<<corrNum, "xcorr">>}
                        /\ UNCHANGED xcorrList
                   ELSE /\ xcorrList' = Append(xcorrList, full)
                        /\ UNCHANGED gkWarns
    /\ UNCHANGED <<means, corrsIn, rejectLevelIn, rejectLevel, meanXcorr, gkKernel>>
    /\ UNCHANGED <<config, sorVars, runVars, regVars, egVars, tileVars, piVars, ccVars>>

\* if not xcorrList: raise RuntimeError
GKRaise ==
    /\ gkPc = "loop"
    /\ corrNum >= NumSamples
    /\ xcorrList = <<>>
    /\ gkPc' = "raised"
    /\ UNCHANGED <<means, corrs, corrsIn, rejectLevelIn, rejectLevel, corrNum, xcorrList, fullCorr,
                   meanXcorr, gkWarns, gkKernel>>
    /\ UNCHANGED <<config, sorVars, runVars, regVars, egVars, tileVars, piVars, ccVars>>

\* the per-pixel clipped mean of the stack, and the call self._SOR(meanXcorr)
GKStack ==
    /\ gkPc = "loop"
    /\ corrNum >= NumSamples
    /\ xcorrList # <<>>
    /\ meanXcorr' = StackMean(xcorrList, fullCorr)
    /\ SORCall(meanXcorr', 0, Zero)
    /\ gkPc' = "sor"
    /\ UNCHANGED <<means, corrs, corrsIn, rejectLevelIn, rejectLevel, corrNum, xcorrList, fullCorr,
                   gkWarns, gkKernel>>
    /\ UNCHANGED <<config, runVars, regVars, egVars, tileVars, piVars, ccVars>>

\* return self._SOR(meanXcorr)
GKReturn ==
    /\ gkPc = "sor"
    /\ sorPc = "returned"
    /\ gkKernel' = sorOut
    /\ gkPc' = "returned"
    /\ UNCHANGED <<means, corrs, corrsIn, rejectLevelIn, rejectLevel, corrNum, xcorrList, fullCorr,
                   meanXcorr, gkWarns>>
    /\ UNCHANGED <<config, sorVars, runVars, regVars, egVars, tileVars, piVars, ccVars>>

(***************************************************************************)
(* _iterativeRegression                                                    *)
(***************************************************************************)
\* sum of s[k]*t[k]
Dot(s, t) == RSumSeq(Tuple([k \in 1..Len(s) |-> RMul(s[k], t[k])]))

\* np.linalg.lstsq(x[:, np.newaxis], y)[0][0]: the slope of the least-squares
\* line through the origin (0 when every x is 0: the minimum-norm solution)
LstsqOrigin(x, y) ==
    IF Dot(x, x) = Zero THEN Zero ELSE RDiv(Dot(x, y), Dot(x, x))

\* np.linalg.lstsq(np.vstack([x, np.ones(len(x))]).T, y)[0]: <<slope, intercept>>
\* of the least-squares line; when every x is the same value a the matrix has
\* rank 1 and lstsq returns the minimum-norm solution mean(y)/(a*a+1) * (a, 1)
LstsqLine(x, y) ==
    LET n   == RInt(Len(x))
        sx  == RSumSeq(x)
        sy  == RSumSeq(y)
        det == RSub(RMul(n, Dot(x, x)), RMul(sx, sx))
    IN  IF det = Zero
        THEN LET a == x[1]
                 t == RDiv(RDiv(sy, n), RAdd(RSq(a), One))
             IN  <<RMul(t, a), t>>
        ELSE LET sl == RDiv(RSub(RMul(n, Dot(x, y)), RMul(sx, sy)), det)
             IN  <<sl, RDiv(RSub(sy, RMul(sl, sx)), n)>>

\* res = y - slope*x - intercept
Residuals(x, y, sl, ic) ==
    Tuple([k \in 1..Len(x) |-> RSub(RSub(y[k], RMul(sl, x[k])), ic)])

\* (r > resMean+nSigmaClip*resStd) | (r < resMean-nSigmaClip*resStd), with
\* resStd = sqrt(var): |r - resMean| > nSigmaClip*sqrt(var), compared squared
IsOutlier(r, resMean, var, nSigma) ==
    RGt(RSq(RSub(r, resMean)), RMul(RInt(nSigma * nSigma), var))

\* index = np.where(...): the sets of positions (0-based) the comparison can
\* flag.  A residual beyond resMean +- nSigmaClip*resStd is flagged; one that
\* lies exactly on the bound is flagged or not as float64 rounds the two sides
OutlierIndexes(res, nSigma) ==
    UNION {LET sure == {n \in 1..Len(res) : IsOutlier(res[n], st[1], st[2], nSigma)}
               tied == {n \in 1..Len(res) : OnBoundary(res[n], st[1], st[2], nSigma)}
           IN  {{k - 1 : k \in sure \cup t} : t \in SUBSET tied} :
           st \in ClipStats(res, nSigma)}

\* np.shape(np.where(index))[1] == 0: np.where of the index array counts its
\* non-zero entries, which are the flagged positions other than position 0
NoneFlagged(index) == {i \in index : i # 0} = {}

\* a variant of LoopBreaks: > in place of >=
LoopBreaksGt(index, n, mi) == NoneFlagged(index) \/ n > mi

\* if np.shape(np.where(index))[1] == 0 or (nIter >= maxIter): break
LoopBreaks(index, n, mi) == NoneFlagged(index) \/ n >= mi

\* np.delete(x, index)
RECURSIVE DeleteFrom(_, _, _)
DeleteFrom(x, index, k) ==
    IF k > Len(x) THEN <<>>
    ELSE (IF (k - 1) \in index THEN <<>> ELSE <<x[k]>>) \o DeleteFrom(x, index, k + 1)

Delete(x, index) == DeleteFrom(x, index, 1)

\* the entry of _iterativeRegression up to the loops
RegCall(x, y, fix, nSigmaArg, maxIterArg) ==
    /\ regXIn' = x
    /\ regYIn' = y
    /\ regFix' = fix
    /\ regNSigma' = IF nSigmaArg = 0 THEN config.nSigmaClipRegression ELSE nSigmaArg
    /\ regMaxIter' = IF maxIterArg = 0 THEN config.maxIterRegression ELSE maxIterArg
    /\ regX' = x
    /\ regY' = y
    /\ regNIter' = 0
    /\ regSlope' = Zero
    /\ regIntercept' = Zero
    /\ regIndex' = {}
    /\ regLog' = <<>>
    /\ regOut' = <<>>
    /\ regPc' = "loop"

\* one body of either while loop, for the fit <<slope, intercept>> of its
\* branch, followed by the test of the loop condition
RegBody(fit) ==
    LET n   == regNIter + 1
        res == Residuals(regX, regY, fit[1], fit[2])
    IN  \E index \in OutlierIndexes(res, regNSigma) :
            /\ regNIter' = n
            /\ regLog' = Append(regLog, <<n, Len(regX)>>)
            /\ regSlope' = fit[1]
            /\ regIndex' = index
            /\ IF LoopBreaks(index, n, regMaxIter)
               THEN /\ regPc' = "return"
                    /\ UNCHANGED <<regX, regY>>
               ELSE /\ regX' = Delete(regX, index)
                    /\ regY' = Delete(regY, index)
                    /\ regPc' = IF n < regMaxIter THEN "loop" ELSE "return"

\* a pass of the loop of the fixThroughOrigin branch
RegPassOrigin ==
    /\ regPc = "loop"
    /\ regFix
    /\ regNIter < regMaxIter
    /\ RegBody(<<LstsqOrigin(regX, regY), Zero>>)
    /\ UNCHANGED <<regXIn, regYIn, regFix, regNSigma, regMaxIter, regIntercept, regOut>>
    /\ UNCHANGED <<config, sorVars, gkVars, runVars, egVars, tileVars, piVars, ccVars>>

\* a pass of the loop of the free-intercept branch
RegPassFree ==
    /\ regPc = "loop"
    /\ ~regFix
    /\ regNIter < regMaxIter
    /\ LET fit == LstsqLine(regX, regY)
       IN  /\ RegBody(fit)
           /\ regIntercept' = fit[2]
    /\ UNCHANGED <<regXIn, regYIn, regFix, regNSigma, regMaxIter, regOut>>
    /\ UNCHANGED <<config, sorVars, gkVars, runVars, egVars, tileVars, piVars, ccVars>>

\* return slope, 0 / return slope, intercept
RegReturn ==
    /\ regPc = "return"
    /\ regOut' = IF regFix THEN <<regSlope, Zero>> ELSE <<regSlope, regIntercept>>
    /\ regPc' = "returned"
    /\ UNCHANGED <<regXIn, regYIn, regFix, regNSigma, regMaxIter, regX, regY, regNIter,
                   regSlope, regIntercept, regIndex, regLog>>
    /\ UNCHANGED <<config, sorVars, gkVars, runVars, egVars, tileVars, piVars, ccVars>>

\* the names of the amplifiers of the detector, in the order of ampInfoCat
ampNames == <<"amp0", "amp1">>

(***************************************************************************)
(* estimateGains                                                           *)
(***************************************************************************)
\* the positive infinity of float64
Inf == <<1, 0>>

\* 1.0/slopeToUse on numpy float64: a zero slope gives inf (and a
\* RuntimeWarning), not an exception
Reciprocal(slope) == IF slope = Zero THEN Inf ELSE RDiv(One, slope)

\* _means[ampName]*10 < _vars[ampName] or _means[ampName]*10 < _covars[ampName]
SanityFails(t) ==
    \/ RLt(RMul(t.mean, RInt(10)), t.var)
    \/ RLt(RMul(t.mean, RInt(10)), t.covar)

\* breaker: the number of amplifiers of the pair that fail the sanity check
Breaker(rec) == Cardinality({a \in DOMAIN rec : SanityFails(rec[a])})

\* a variant of Dropped: the bounds themselves are dropped too
DroppedLe(t) ==
    \/ ~RGt(RMul(t.var, <<13, 10>>), t.covar)
    \/ ~RLt(RMul(t.var, <<7, 10>>), t.covar)

\* _vars[k]*1.3 < _covars[k] or _vars[k]*0.7 > _covars[k]
Dropped(t) ==
    \/ RLt(RMul(t.var, <<13, 10>>), t.covar)
    \/ RGt(RMul(t.var, <<7, 10>>), t.covar)

\* the lists lst (amplifier -> list) after the loop over _means.keys() for the
\* pair rec, appending the field named ("mean", "var" or "covar")
AppendKept(lst, rec, field) ==
    [a \in DOMAIN lst |-> IF Dropped(rec[a]) THEN lst[a] ELSE Append(lst[a], rec[a][field])]

\* amp.getGain()
NominalGain(a) == One

\* a variant of SlopeToUse: the branches exchanged
SlopeToUseSwapped(fix, sFix, sUnfix) == IF fix THEN sUnfix ELSE sFix

\* slopeToUse
SlopeToUse(fix, sFix, sUnfix) == IF fix THEN sFix ELSE sUnfix

\* every x of the list is the same value (a list of one value included)
AllSame(x) == \A k \in 1..Len(x) : x[k] = x[1]

\* the amplifier the fitting loop is at
CurAmp == ampNames[egAmp + 1]

\* the entry of estimateGains up to the loop over the visit pairs
EGCall(nPairs) ==
    /\ egPairs' = <<>>
    /\ egNPairs' = nPairs
    /\ ampMeans' = [a \in {ampNames[k] : k \in 1..Len(ampNames)} |-> <<>>]
    /\ ampVariances' = [a \in {ampNames[k] : k \in 1..Len(ampNames)} |-> <<>>]
    /\ ampCoVariances' = [a \in {ampNames[k] : k \in 1..Len(ampNames)} |-> <<>>]
    /\ egWarns' = {}
    /\ egAmp' = 0
    /\ slopeFix' = Zero
    /\ egGains' = <<>>
    /\ egNomGains' = <<>>
    /\ egOut' = <<>>
    /\ egPc' = "visits"

\* one visit pair of the loop: the call of _calcMeansAndVars, then the sanity
\* check over all amplifiers and the per-amplifier 30% check.
\* _calcMeansAndVars works on the exposures the ISR task supplies and either
\* raises (makeStatistics on an amplifier the border leaves no pixel of,
\* BackgroundControl on a difference image narrower than one bin), in which
\* case the exception leaves estimateGains with nothing logged or appended
\* for the pair, or returns the three dicts, drawn from recs.
EGVisit(recs) ==
    /\ egPc = "visits"
    /\ Len(egPairs) < egNPairs
    /\ \/ /\ egPc' = "raised"
          /\ UNCHANGED <<egPairs, egWarns, ampMeans, ampVariances, ampCoVariances>>
       \/ \E rec \in recs :
             LET num == Len(egPairs)
             IN  /\ egPairs' = Append(egPairs, rec)
                 /\ IF Breaker(rec) # 0
                    THEN /\ egWarns' = egWarns \cup
                               {<<num, a, "sanity">> :
                                   a \in {b \in DOMAIN rec : SanityFails(rec[b])}}
                         /\ UNCHANGED <<ampMeans, ampVariances, ampCoVariances>>
                    ELSE /\ egWarns' = egWarns \cup
                               {<<num, a, "dropped">> :
                                   a \in {b \in DOMAIN rec : Dropped(rec[b])}}
                         /\ ampMeans' = AppendKept(ampMeans, rec, "mean")
                         /\ ampVariances' = AppendKept(ampVariances, rec, "var")
                         /\ ampCoVariances' = AppendKept(ampCoVariances, rec, "covar")
                 /\ UNCHANGED egPc
    /\ UNCHANGED <<egNPairs, egAmp, slopeFix, egGains, egNomGains, egOut>>
    /\ UNCHANGED <<config, sorVars, gkVars, runVars, regVars, tileVars, piVars, ccVars>>

\* the loop over the visit pairs is done: gains = {}, nomGains = {}
EGStartFits ==
    /\ egPc = "visits"
    /\ Len(egPairs) >= egNPairs
    /\ egAmp' = 0
    /\ egPc' = "fit"
    /\ UNCHANGED <<egPairs, egNPairs, ampMeans, ampVariances, ampCoVariances, egWarns,
                   slopeFix, egGains, egNomGains, egOut>>
    /\ UNCHANGED <<config, sorVars, gkVars, runVars, regVars, tileVars, piVars, ccVars>>

\* stats.linregress raises ValueError: always for empty inputs; for inputs whose
\* x are all the same value only in the releases of scipy that check for it
EGLinregressRaises ==
    /\ egPc = "fit"
    /\ egAmp < Len(ampNames)
    /\ AllSame(ampMeans[CurAmp])
    /\ egNomGains' = (CurAmp :> NominalGain(CurAmp)) @@ egNomGains
    /\ egPc' = "raised"
    /\ UNCHANGED <<egPairs, egNPairs, ampMeans, ampVariances, ampCoVariances, egWarns,
                   egAmp, slopeFix, egGains, egOut>>
    /\ UNCHANGED <<config, sorVars, gkVars, runVars, regVars, tileVars, piVars, ccVars>>

\* nomGains[ampName] = amp.getGain(), stats.linregress returns, and the call
\* of _iterativeRegression with fixThroughOrigin=True
EGCallFix ==
    /\ egPc = "fit"
    /\ egAmp < Len(ampNames)
    /\ Len(ampMeans[CurAmp]) > 0
    /\ egNomGains' = (CurAmp :> NominalGain(CurAmp)) @@ egNomGains
    /\ RegCall(ampMeans[CurAmp], ampCoVariances[CurAmp], TRUE, 0, 0)
    /\ egPc' = "fixed"
    /\ UNCHANGED <<egPairs, egNPairs, ampMeans, ampVariances, ampCoVariances, egWarns,
                   egAmp, slopeFix, egGains, egOut>>
    /\ UNCHANGED <<config, sorVars, gkVars, runVars, tileVars, piVars, ccVars>>

\* slopeFix, _ = ..., and the call of _iterativeRegression with
\* fixThroughOrigin=False
EGCallUnfix ==
    /\ egPc = "fixed"
    /\ regPc = "returned"
    /\ slopeFix' = regOut[1]
    /\ RegCall(ampMeans[CurAmp], ampCoVariances[CurAmp], FALSE, 0, 0)
    /\ egPc' = "unfixed"
    /\ UNCHANGED <<egPairs, egNPairs, ampMeans, ampVariances, ampCoVariances, egWarns,
                   egAmp, egGains, egNomGains, egOut>>
    /\ UNCHANGED <<config, sorVars, gkVars, runVars, tileVars, piVars, ccVars>>

\* slopeUnfix, intercept = ..., the choice of slopeToUse and
\* gains[ampName] = 1.0/slopeToUse
EGStoreGain ==
    /\ egPc = "unfixed"
    /\ regPc = "returned"
    /\ egGains' = (CurAmp :> Reciprocal(SlopeToUse(config.fixPtcThroughOrigin,
                                                 slopeFix, regOut[1]))) @@ egGains
    /\ egAmp' = egAmp + 1
    /\ egPc' = "fit"
    /\ UNCHANGED <<egPairs, egNPairs, ampMeans, ampVariances, ampCoVariances, egWarns,
                   slopeFix, egNomGains, egOut>>
    /\ UNCHANGED <<config, sorVars, gkVars, runVars, regVars, tileVars, piVars, ccVars>>

\* return gains, nomGains
EGReturn ==
    /\ egPc = "fit"
    /\ egAmp >= Len(ampNames)
    /\ egOut' = <<egGains, egNomGains>>
    /\ egPc' = "done"
    /\ UNCHANGED <<egPairs, egNPairs, ampMeans, ampVariances, ampCoVariances, egWarns,
                   egAmp, slopeFix, egGains, egNomGains>>
    /\ UNCHANGED <<config, sorVars, gkVars, runVars, regVars, tileVars, piVars, ccVars>>

(***************************************************************************)
(* run: the gains, the loop over visit pairs and the loop that generates  *)
(* the kernels.                                                            *)
(***************************************************************************)
\* dataRef.dataId['ccd']
ccdNum == "ccd"

\* detName = local_exp.getDetector().getId(), the key _prepareImage uses at
\* CCD level: the id of the exposure's detector, which nothing in run ties to
\* dataRef.dataId['ccd']
detName == "det"

\* the ids the detector of an exposure of run can have
DetectorIds == {ccdNum, detName}

\* the keys of xcorrs, in the order the kernel loop visits them
RegionKeys == IF config.level = "CCD" THEN <<ccdNum>> ELSE ampNames

KeySet == {RegionKeys[k] : k \in 1..Len(RegionKeys)}

\* config.doCalcGains is set: gains, nomGains = self.estimateGains(dataRef,
\* visitPairs), the call
RunCallEG ==
    /\ runPc = "gains"
    /\ config.doCalcGains
    /\ EGCall(nVisits)
    /\ runPc' = "estimate"
    /\ UNCHANGED <<xcorrs, runMeans, kernels, visit, nVisits, prepKeys, regionIdx, stored, storedGains>>
    /\ UNCHANGED <<config, sorVars, gkVars, regVars, tileVars, piVars, ccVars>>

\* estimateGains returned: dataRef.put(gains, datasetType='bfGain')
RunPutGains ==
    /\ runPc = "estimate"
    /\ egPc = "done"
    /\ storedGains' = egOut[1]
    /\ runPc' = "visits"
    /\ UNCHANGED <<xcorrs, runMeans, kernels, visit, nVisits, prepKeys, regionIdx, stored>>
    /\ UNCHANGED <<config, sorVars, gkVars, regVars, egVars, tileVars, piVars, ccVars>>

\* estimateGains raised (an exception of _calcMeansAndVars or the ValueError
\* of stats.linregress): run has no handler, the exception leaves run before
\* anything is put
RunAbortGains ==
    /\ runPc = "estimate"
    /\ egPc = "raised"
    /\ runPc' = "raised"
    /\ UNCHANGED <<xcorrs, runMeans, kernels, visit, nVisits, prepKeys, regionIdx, stored, storedGains>>
    /\ UNCHANGED <<config, sorVars, gkVars, regVars, egVars, tileVars, piVars, ccVars>>

\* config.doCalcGains is not set: the gains come from dataRef.get('bfGain'),
\* and an empty result raises RuntimeError
RunGains ==
    /\ runPc = "gains"
    /\ ~config.doCalcGains
    /\ \E gains \in {"empty", "found"} :
          runPc' = IF gains = "empty" THEN "raised" ELSE "visits"
    /\ UNCHANGED <<xcorrs, runMeans, kernels, visit, nVisits, prepKeys, regionIdx, stored, storedGains>>
    /\ UNCHANGED <<config, sorVars, gkVars, regVars, egVars, tileVars, piVars, ccVars>>

\* one visit pair, up to the loop over regions: the two exposures come from
\* the ISR task and _prepareImage is called on each.  The calls either raise
\* (the statistics of a region without pixels) or return dicts keyed by the
\* amplifier names at AMP level and by the detector's id at CCD level.
RunPrepare ==
    /\ runPc = "visits"
    /\ visit < nVisits
    /\ \/ /\ emptyStats = "raises"
          /\ runPc' = "raised"
          /\ UNCHANGED <<prepKeys, regionIdx>>
       \/ \E id \in DetectorIds :
             /\ prepKeys' = IF config.level = "CCD" THEN <<id>> ELSE ampNames
             /\ regionIdx' = 0
             /\ runPc' = "regions"
    /\ UNCHANGED <<xcorrs, runMeans, kernels, visit, nVisits, stored, storedGains>>
    /\ UNCHANGED <<config, sorVars, gkVars, regVars, egVars, tileVars, piVars, ccVars>>

\* one body of "for det_object in _scaledMaskedIm1.keys()":
\* xcorrs[det_object].append(self._crossCorrelate(...)) and
\* means[det_object].append([...]).  xcorrs[det_object] is looked up before
\* _crossCorrelate is called and raises KeyError for a key run did not set up;
\* _crossCorrelate either raises (a region narrower than one background bin,
\* the statistics of a region without pixels) or returns the quarter array
\* that is appended.  The regions before the one that raises keep their
\* samples.
RunRegion(samples) ==
    /\ runPc = "regions"
    /\ regionIdx < Len(prepKeys)
    /\ LET det_object == prepKeys[regionIdx + 1]
       IN  IF det_object \notin DOMAIN xcorrs
           THEN /\ runPc' = "raised"
                /\ UNCHANGED <<xcorrs, runMeans, regionIdx>>
           ELSE \/ /\ runPc' = "raised"
                   /\ UNCHANGED <<xcorrs, runMeans, regionIdx>>
                \/ \E smp \in samples :
                      /\ xcorrs' = [xcorrs EXCEPT ![det_object] = Append(@, smp.corr)]
                      /\ runMeans' = [runMeans EXCEPT ![det_object] = Append(@, smp.means)]
                      /\ regionIdx' = regionIdx + 1
                      /\ UNCHANGED runPc
    /\ UNCHANGED <<kernels, visit, nVisits, prepKeys, stored, storedGains>>
    /\ UNCHANGED <<config, sorVars, gkVars, regVars, egVars, tileVars, piVars, ccVars>>

\* the loop over the regions of the visit pair is done: the next pair
RunVisitDone ==
    /\ runPc = "regions"
    /\ regionIdx >= Len(prepKeys)
    /\ visit' = visit + 1
    /\ runPc' = "visits"
    /\ UNCHANGED <<xcorrs, runMeans, kernels, nVisits, prepKeys, regionIdx, stored, storedGains>>
    /\ UNCHANGED <<config, sorVars, gkVars, regVars, egVars, tileVars, piVars, ccVars>>

\* the loop over visit pairs is done
RunStartKernels ==
    /\ runPc = "visits"
    /\ visit >= nVisits
    /\ runPc' = "kernels"
    /\ regionIdx' = 0
    /\ UNCHANGED <<xcorrs, runMeans, kernels, visit, nVisits, prepKeys, stored, storedGains>>
    /\ UNCHANGED <<config, sorVars, gkVars, regVars, egVars, tileVars, piVars, ccVars>>

\* kernels[det_object] = self._generateKernel(...): the call
RunCallGK ==
    /\ runPc = "kernels"
    /\ regionIdx < Len(RegionKeys)
    /\ LET key == RegionKeys[regionIdx + 1]
       IN  GKCall(runMeans[key], xcorrs[key], Zero)
    /\ runPc' = "call"
    /\ UNCHANGED <<xcorrs, runMeans, kernels, visit, nVisits, prepKeys, regionIdx, stored, storedGains>>
    /\ UNCHANGED <<config, sorVars, regVars, egVars, tileVars, piVars, ccVars>>

\* kernels[det_object] = self._generateKernel(...): the assignment; the arrays
\* of xcorrs[det_object] are the ones _generateKernel modified in place
RunStoreKernel ==
    /\ runPc = "call"
    /\ gkPc = "returned"
    /\ LET key == RegionKeys[regionIdx + 1]
       IN  /\ kernels' = (key :> gkKernel) @@ kernels
           /\ xcorrs' = [xcorrs EXCEPT ![key] = corrs]
    /\ regionIdx' = regionIdx + 1
    /\ runPc' = "kernels"
    /\ UNCHANGED <<runMeans, visit, nVisits, prepKeys, stored, storedGains>>
    /\ UNCHANGED <<config, sorVars, gkVars, regVars, egVars, tileVars, piVars, ccVars>>

\* _generateKernel raised: run has no handler, the exception leaves run
RunAbort ==
    /\ runPc = "call"
    /\ gkPc \in {"raised", "asserted"}
    /\ LET key == RegionKeys[regionIdx + 1]
       IN  xcorrs' = [xcorrs EXCEPT ![key] = corrs]
    /\ runPc' = "raised"
    /\ UNCHANGED <<runMeans, kernels, visit, nVisits, prepKeys, regionIdx, stored, storedGains>>
    /\ UNCHANGED <<config, sorVars, gkVars, regVars, egVars, tileVars, piVars, ccVars>>

\* dataRef.put(kernels) and the return
RunPut ==
    /\ runPc = "kernels"
    /\ regionIdx >= Len(RegionKeys)
    /\ stored' = kernels
    /\ runPc' = "done"
    /\ UNCHANGED <<xcorrs, runMeans, kernels, visit, nVisits, prepKeys, regionIdx, storedGains>>
    /\ UNCHANGED <<config, sorVars, gkVars, regVars, egVars, tileVars, piVars, ccVars>>

(***************************************************************************)
(* _tileArray called on its own                                            *)
(***************************************************************************)
\* assert(in_array.shape[0] == in_array.shape[1]) fails: AssertionError
TileAssertFails ==
    /\ tilePc = "called"
    /\ ~IsSquare(tileIn)
    /\ tilePc' = "raised"
    /\ UNCHANGED <<tileIn, tileArg, tileOut>>
    /\ UNCHANGED <<config, sorVars, gkVars, runVars, regVars, egVars, piVars, ccVars>>

\* the assertion holds: output is allocated, filled from in_array and returned;
\* no statement assigns to in_array
TileReturn ==
    /\ tilePc = "called"
    /\ IsSquare(tileIn)
    /\ tileOut' = TileArray(tileIn)
    /\ tilePc' = "returned"
    /\ UNCHANGED <<tileIn, tileArg>>
    /\ UNCHANGED <<config, sorVars, gkVars, runVars, regVars, egVars, piVars, ccVars>>

\* _tileArray not called on its own
TileIdle == tileIn = <<>> /\ tileArg = <<>> /\ tileOut = <<>> /\ tilePc = "idle"

(***************************************************************************)
(* _prepareImage.  The bounding boxes of the amplifiers tile the sensor    *)
(* side by side; an image is held as amplifier -> the pixels of its bbox,  *)
(* and a view of mi as the amplifier whose bbox it covers.                 *)
(***************************************************************************)
\* the pixels of an image as one sequence, row after row
RECURSIVE Flat(_)
Flat(arr) ==
    IF Len(arr) = 0 THEN <<>>
    ELSE IF Len(arr) = 1 THEN arr[1]
    ELSE Flat(SubSeq(arr, 1, Len(arr) \div 2)) \o Flat(SubSeq(arr, Len(arr) \div 2 + 1, Len(arr)))

\* the result of a statistic that has no value
NaN == <<0, 0>>

\* the position on an axis of the given size a slice bound k denotes
SliceIndex(k, size) ==
    IF k < 0 THEN (IF k + size < 0 THEN 0 ELSE k + size)
    ELSE IF k > size THEN size ELSE k

\* the number of positions of the slice start:stop
SliceLen(start, stop, size) ==
    IF SliceIndex(stop, size) > SliceIndex(start, size)
    THEN SliceIndex(stop, size) - SliceIndex(start, size)
    ELSE 0

\* im[border:-border, border:-border], the bounds resolved as slice bounds: a
\* border of 0 gives the slice 0:0, an image without pixels
Crop(arr, border) ==
    LET n  == Len(arr)
        m  == IF n = 0 THEN 0 ELSE Len(arr[1])
        i0 == SliceIndex(border, n)
        j0 == SliceIndex(border, m)
    IN  Tuple([i \in 1..SliceLen(border, -border, n) |->
                  SubSeq(arr[i0 + i], j0 + 1, j0 + SliceLen(border, -border, m))])

\* the whole image: the bboxes of the amplifiers side by side
Assemble(im) ==
    Tuple([i \in 1..Len(im[ampNames[1]]) |-> im[ampNames[1]][i] \o im[ampNames[2]][i]])

\* im *= gain
Scaled(arr, gain) ==
    Tuple([i \in 1..Len(arr) |-> Tuple([j \in 1..Len(arr[i]) |-> RMul(arr[i][j], gain)])])

\* im -= value
Shifted(arr, value) ==
    Tuple([i \in 1..Len(arr) |-> Tuple([j \in 1..Len(arr[i]) |-> RSub(arr[i][j], value)])])

\* afwMath.makeStatistics(im, afwMath.MEANCLIP, sctrl).getValue(), when it
\* returns: on an image without pixels the value is NaN
ImageMeanClip(arr) ==
    IF Flat(arr) = <<>> THEN NaN ELSE MeanClip(Flat(arr), config.nSigmaClipXCorr)

\* afwMath.makeStatistics(im, ...) raises: the image has no pixels and the
\* library is one that rejects such an image
StatisticsRaise(arr) == Flat(arr) = <<>> /\ emptyStats = "raises"

\* the entry of _prepareImage up to the loop: the clone of exp and its copy temp
PICall(exp, gainsArg, level) ==
    /\ piExp' = exp
    /\ piGains' = gainsArg
    /\ piLevel' = level
    /\ piMi' = exp
    /\ piTemp' = exp
    /\ piAmp' = 0
    /\ rescaleIm' = ""
    /\ piMeans' = <<>>
    /\ returnAreas' = <<>>
    /\ piOut' = <<>>
    /\ piPc' = "loop"

\* one body of the loop over ampInfoCat; the statistic of the AMP branch may
\* raise, and the exception leaves _prepareImage
PIAmp ==
    /\ piPc = "loop"
    /\ piAmp < Len(ampNames)
    /\ LET ampName == ampNames[piAmp + 1]
           mean    == ImageMeanClip(piMi[ampName])
           gain    == piGains[ampName]
           scaled  == Scaled(piTemp[ampName], gain)
           cropped == Crop(scaled, config.nPixBorderXCorr)
       IN  /\ rescaleIm' = ampName
           /\ piMi' = [piMi EXCEPT ![ampName] =
                          Shifted(Scaled(piMi[ampName], gain), RMul(mean, gain))]
           /\ piTemp' = [piTemp EXCEPT ![ampName] = scaled]
           /\ IF piLevel = "AMP" /\ StatisticsRaise(cropped)
              THEN /\ piPc' = "raised"
                   /\ UNCHANGED <<piMeans, returnAreas, piAmp>>
              ELSE /\ IF piLevel = "AMP"
                      THEN /\ piMeans' = (ampName :> ImageMeanClip(cropped)) @@ piMeans
                           /\ returnAreas' = (ampName :> ampName) @@ returnAreas
                      ELSE UNCHANGED <<piMeans, returnAreas>>
                   /\ piAmp' = piAmp + 1
                   /\ UNCHANGED piPc
    /\ UNCHANGED <<piExp, piGains, piLevel, piOut>>
    /\ UNCHANGED <<config, sorVars, gkVars, runVars, regVars, egVars, tileVars, ccVars>>

\* the image a stored view shows: the bbox it covers and the pixels of mi there
ViewOf(a) == [amps |-> {a}, image |-> piMi[a]]

\* the statements after the loop: the CCD branch, whose statistic may raise,
\* and the return
PIReturn ==
    /\ piPc = "loop"
    /\ piAmp >= Len(ampNames)
    /\ LET cropped == Crop(Assemble(piTemp), config.nPixBorderXCorr)
       IN  IF piLevel = "CCD" /\ StatisticsRaise(cropped)
           THEN /\ piPc' = "raised"
                /\ UNCHANGED <<piMeans, returnAreas, piOut>>
           ELSE /\ IF piLevel = "CCD"
                   THEN /\ piMeans' = (detName :> ImageMeanClip(cropped)) @@ piMeans
                        /\ returnAreas' = (detName :> rescaleIm) @@ returnAreas
                   ELSE UNCHANGED <<piMeans, returnAreas>>
                /\ piOut' = <<[k \in DOMAIN returnAreas' |-> ViewOf(returnAreas'[k])],
                              piMeans'>>
                /\ piPc' = "returned"
    /\ UNCHANGED <<piExp, piGains, piLevel, piMi, piTemp, piAmp, rescaleIm>>
    /\ UNCHANGED <<config, sorVars, gkVars, runVars, regVars, egVars, tileVars, ccVars>>

(***************************************************************************)
(* _crossCorrelate.  The images are the objects of a heap (name -> pixels, *)
(* indexed [x][y]); a view is an object with a bounding box.  clone()      *)
(* makes a new object, slicing makes a view of the same object, and the    *)
(* in-place operators write to the object of their left operand.           *)
(***************************************************************************)
\* the view of a whole object
WholeView(heap, name) ==
    [obj |-> name, x0 |-> 0, w |-> Len(heap[name]),
     y0 |-> 0, h |-> IF heap[name] = <<>> THEN 0 ELSE Len(heap[name][1])]

\* v[xStart:xStop, yStart:yStop]
SubView(v, xStart, xStop, yStart, yStop) ==
    [obj |-> v.obj,
     x0 |-> v.x0 + SliceIndex(xStart, v.w), w |-> SliceLen(xStart, xStop, v.w),
     y0 |-> v.y0 + SliceIndex(yStart, v.h), h |-> SliceLen(yStart, yStop, v.h)]

\* the pixels a view shows
Pixels(heap, v) ==
    Tuple([i \in 1..v.w |-> Tuple([j \in 1..v.h |-> heap[v.obj][v.x0 + i][v.y0 + j]])])

\* the heap after an in-place operator has given the pixels arr to view v
Written(heap, v, arr) ==
    (v.obj :> Tuple([i \in 1..Len(heap[v.obj]) |->
                 Tuple([j \in 1..Len(heap[v.obj][i]) |->
                     IF i > v.x0 /\ i <= v.x0 + v.w /\ j > v.y0 /\ j <= v.y0 + v.h
                     THEN arr[i - v.x0][j - v.y0]
                     ELSE heap[v.obj][i][j]])])) @@ heap

\* a variant of Clone: no copy, the result is the object itself
CloneShared(name) == name

\* maskedIm0.clone(): the new object
Clone(name) == "diff"

\* a -= b
Minus(a, b) ==
    Tuple([i \in 1..Len(a) |-> Tuple([j \in 1..Len(a[i]) |-> RSub(a[i][j], b[i][j])])])

\* a *= b
Times(a, b) ==
    Tuple([i \in 1..Len(a) |-> Tuple([j \in 1..Len(a[i]) |-> RMul(a[i][j], b[i][j])])])

\* the nx by ny clipped means of the bins of arr, held at every pixel of
\* their bin; nx and ny are at least 1 (BackgroundControl refuses 0)
BackgroundImage(arr, nx, ny) ==
    LET w == Len(arr)
        h == IF w = 0 THEN 0 ELSE Len(arr[1])
        XBin(i) == ((i - 1) * nx) \div w
        YBin(j) == ((j - 1) * ny) \div h
        Bin(bx, by) ==
            Flat(Tuple([i \in 1..w |->
                SelectSeq(Tuple([j \in 1..h |-> <<i, j>>]),
                          LAMBDA c : XBin(c[1]) = bx /\ YBin(c[2]) = by)]))
        BinMean(bx, by) ==
            MeanClip(Tuple([k \in 1..Len(Bin(bx, by)) |->
                         arr[Bin(bx, by)[k][1]][Bin(bx, by)[k][2]]]),
                     config.nSigmaClipXCorr)
    IN  Tuple([i \in 1..w |-> Tuple([j \in 1..h |-> BinMean(XBin(i), YBin(j))])])

\* diff = maskedIm0.clone(); diff -= maskedIm1.getImage();
\* diff = diff[border:-border, border:-border]
CCDiff ==
    /\ ccPc = "diff"
    /\ LET d      == Clone("maskedIm0")
           cloned == (d :> ccHeap["maskedIm0"]) @@ ccHeap
           whole  == WholeView(cloned, d)
           border == config.nPixBorderXCorr
       IN  /\ ccHeap' = Written(cloned, whole,
                                Minus(Pixels(cloned, whole), ccHeap["maskedIm1"]))
           /\ diff' = SubView(whole, border, -border, border, -border)
    /\ ccPc' = "background"
    /\ UNCHANGED <<dim0, xcorr, xlag, ylag, emptyStats, ccOut>>
    /\ UNCHANGED <<config, sorVars, gkVars, runVars, regVars, egVars, tileVars, piVars>>

\* bctrl = afwMath.BackgroundControl(nx, ny, ...), which raises when it is
\* given no bin along an axis ("You must specify at least one point"), that
\* is before anything is subtracted when the cropped diff is narrower than
\* one bin;
\* diff -= bkgd.getImageF(...), with nx by ny bins of binsize pixels
CCBackground ==
    /\ ccPc = "background"
    /\ LET binsize == config.backgroundBinSize
           nx      == diff.w \div binsize
           ny      == diff.h \div binsize
           pix     == Pixels(ccHeap, diff)
       IN  IF nx = 0 \/ ny = 0
           THEN /\ ccPc' = "raised"
                /\ UNCHANGED ccHeap
           ELSE /\ ccHeap' = Written(ccHeap, diff, Minus(pix, BackgroundImage(pix, nx, ny)))
                /\ ccPc' = "dim0"
    /\ UNCHANGED <<diff, dim0, xcorr, xlag, ylag, emptyStats, ccOut>>
    /\ UNCHANGED <<config, sorVars, gkVars, runVars, regVars, egVars, tileVars, piVars>>

\* dim0 = diff[0: -maxLag, : -maxLag]; dim0 -= MEANCLIP(dim0);
\* xcorr = np.zeros((maxLag + 1, maxLag + 1))
CCDim0 ==
    /\ ccPc = "dim0"
    /\ LET maxLag == config.maxLag
           view   == SubView(diff, 0, -maxLag, 0, -maxLag)
           pix    == Pixels(ccHeap, view)
       IN  /\ dim0' = view
           /\ IF Flat(pix) = <<>>
              THEN /\ ccPc' = IF StatisticsRaise(pix) THEN "raised" ELSE "loop"
                   /\ UNCHANGED ccHeap
              ELSE /\ ccHeap' = Written(ccHeap, view, Shifted(pix, ImageMeanClip(pix)))
                   /\ ccPc' = "loop"
           /\ xcorr' = IF ccPc' = "loop" THEN Zeros(maxLag + 1) ELSE xcorr
    /\ UNCHANGED <<diff, xlag, ylag, emptyStats, ccOut>>
    /\ UNCHANGED <<config, sorVars, gkVars, runVars, regVars, egVars, tileVars, piVars>>

\* one body of "for ylag in range(maxLag + 1)"
CCLag ==
    /\ ccPc = "loop"
    /\ xlag <= config.maxLag
    /\ LET width   == dim0.w
           height  == dim0.h
           dim_xy  == Pixels(ccHeap, SubView(diff, xlag, xlag + width, ylag, ylag + height))
           centred == IF Flat(dim_xy) = <<>> THEN dim_xy
                      ELSE Shifted(dim_xy, ImageMeanClip(dim_xy))
           product == Times(centred, Pixels(ccHeap, dim0))
           value   == IF Flat(product) = <<>> THEN NaN
                      ELSE RDiv(ImageMeanClip(product), config.biasCorr)
       IN  xcorr' = Put(xcorr, xlag, ylag, value)
    /\ IF ylag < config.maxLag
       THEN /\ ylag' = ylag + 1
            /\ xlag' = xlag
       ELSE /\ ylag' = 0
            /\ xlag' = xlag + 1
    /\ UNCHANGED <<ccHeap, diff, dim0, emptyStats, ccOut, ccPc>>
    /\ UNCHANGED <<config, sorVars, gkVars, runVars, regVars, egVars, tileVars, piVars>>

\* return xcorr
CCReturn ==
    /\ ccPc = "loop"
    /\ xlag > config.maxLag
    /\ ccOut' = xcorr
    /\ ccPc' = "returned"
    /\ UNCHANGED <<ccHeap, diff, dim0, xcorr, xlag, ylag, emptyStats>>
    /\ UNCHANGED <<config, sorVars, gkVars, runVars, regVars, egVars, tileVars, piVars>>

\* _crossCorrelate not called
CCIdle ==
    /\ ccHeap = <<>> /\ diff = <<>> /\ dim0 = <<>> /\ xcorr = <<>> /\ xlag = 0
    /\ ylag = 0 /\ ccOut = <<>> /\ ccPc = "idle"

\* _prepareImage not called
PIIdle ==
    /\ piExp = <<>> /\ piGains = <<>> /\ piLevel = "" /\ piMi = <<>> /\ piTemp = <<>>
    /\ piAmp = 0 /\ rescaleIm = "" /\ piMeans = <<>> /\ returnAreas = <<>>
    /\ piOut = <<>> /\ piPc = "idle"

\* estimateGains not called
EGIdle ==
    /\ egPairs = <<>> /\ egNPairs = 0 /\ ampMeans = <<>> /\ ampVariances = <<>>
    /\ ampCoVariances = <<>> /\ egWarns = {} /\ egAmp = 0 /\ slopeFix = Zero
    /\ egGains = <<>> /\ egNomGains = <<>> /\ egOut = <<>> /\ egPc = "idle"

\* _iterativeRegression not called
RegIdle ==
    /\ regXIn = <<>> /\ regYIn = <<>> /\ regFix = FALSE /\ regNSigma = 0 /\ regMaxIter = 0
    /\ regX = <<>> /\ regY = <<>> /\ regNIter = 0 /\ regSlope = Zero /\ regIntercept = Zero
    /\ regIndex = {} /\ regLog = <<>> /\ regOut = <<>> /\ regPc = "idle"

\* BfTaskConfig(): every field the modelled methods read, at its default.
\* The default of eLevelSOR, 5.0e-14, is no ratio of two 32-bit integers and
\* is held as its literal; every specification that runs _SOR overrides it
\* with a level the arithmetic of the model can compare with.
DefaultConfig ==
    [doCalcGains           |-> TRUE,
     maxIterRegression     |-> 10,
     nSigmaClipGainCalc    |-> 5,
     nSigmaClipRegression  |-> 3,
     xcorrCheckRejectLevel |-> One,
     maxIterSOR            |-> 10000,
     eLevelSOR             |-> "5.0e-14",
     nSigmaClipKernelGen   |-> 4,
     nSigmaClipXCorr       |-> 5,
     maxLag                |-> 5,
     nPixBorderGainCalc    |-> 10,
     nPixBorderXCorr       |-> 10,
     biasCorr              |-> <<9241, 10000>>,
     backgroundBinSize     |-> 128,
     fixPtcThroughOrigin   |-> TRUE,
     level                 |-> "CCD"]

\* the configuration of the calls on small images and short iterations: the
\* defaults with maxIterSOR, eLevelSOR, maxLag, nPixBorderXCorr and
\* backgroundBinSize overridden, as a config file overrides them
SmallConfig ==
    [DefaultConfig EXCEPT !.maxIterSOR = CfgMaxIterSOR,
                          !.eLevelSOR = <<1, 2>>,
                          !.maxLag = 1,
                          !.nPixBorderXCorr = 1,
                          !.backgroundBinSize = 2]

\* _SOR not called
SORIdle ==
    /\ source = <<>> /\ maxIter = 0 /\ eLevel = Zero /\ func = <<>> /\ resid = <<>>
    /\ inError = Zero /\ outError = Zero /\ nIter = 0 /\ omega = One
    /\ halfSweeps = 0 /\ sorLog = "none" /\ sorOut = <<>> /\ sorPc = "idle"

\* _generateKernel not called
GKIdle ==
    /\ means = <<>> /\ corrs = <<>> /\ corrsIn = <<>> /\ rejectLevelIn = Zero /\ rejectLevel = Zero
    /\ corrNum = 0 /\ xcorrList = <<>> /\ fullCorr = <<>> /\ meanXcorr = <<>>
    /\ gkWarns = {} /\ gkKernel = <<>> /\ gkPc = "idle"

\* run not called
RunIdle ==
    /\ xcorrs = <<>> /\ runMeans = <<>> /\ kernels = <<>> /\ visit = 0 /\ nVisits = 0
    /\ prepKeys = <<>> /\ regionIdx = 0 /\ stored = <<>> /\ storedGains = <<>>
    /\ runPc = "idle"

(***************************************************************************)
(* _SOR called directly on a bounded set of square sources.                *)
(***************************************************************************)
SrcVals == {RInt(-1), Zero, One}

NonZeroCells(arr) == {c \in (1..Len(arr)) \X (1..Len(arr)) : arr[c[1]][c[2]] # Zero}

\* a source of side 3 with a single peak at its centre
PeakSource ==
    Tuple([i \in 1..3 |-> Tuple([j \in 1..3 |-> IF i = 2 /\ j = 2 THEN One ELSE Zero])])

Sources ==
    UNION {{arr \in [1..n -> [1..n -> SrcVals]] : Cardinality(NonZeroCells(arr)) <= MaxNonZero} :
           n \in 1..MaxSide}
    \cup {PeakSource}

ELevels == {<<1, 2>>, <<1, 1000>>}

SORConfigs == {[SmallConfig EXCEPT !.eLevelSOR = e] : e \in ELevels}

InitSOR ==
    /\ config \in SORConfigs
    /\ GKIdle
    /\ RunIdle
    /\ RegIdle
    /\ EGIdle
    /\ TileIdle
    /\ PIIdle
    /\ CCIdle
    /\ emptyStats = "raises"
    /\ \E src \in Sources, mi \in 0..MaxIterSOR, el \in {Zero} \cup ELevels :
          LET f == Zeros(Side(src) + 2)
              r == InitResid(f, src)
          IN  /\ source = src
              /\ maxIter = IF mi = 0 THEN config.maxIterSOR ELSE mi
              /\ eLevel = IF el = Zero THEN config.eLevelSOR ELSE el
              /\ func = f
              /\ resid = r
              /\ inError = ArrSum(ArrAbs(r))
              /\ outError = Zero
              /\ nIter = 0
              /\ omega = One
              /\ halfSweeps = 0
              /\ sorLog = "none"
              /\ sorOut = <<>>
              /\ sorPc = "loop"

NextSOR == SORSweep \/ SORExit \/ SORLog

SpecSOR == InitSOR /\ [][NextSOR]_vars

(***************************************************************************)
(* _generateKernel called on a bounded set of sample lists.                *)
(***************************************************************************)
MeanPairs == {<<One, One>>, <<One, RInt(2)>>}

\* quarter arrays of side 2 (maxLag = 1)
Quarters ==
    {<< <<RInt(c), RInt(d)>>, <<Zero, Zero>> >> : c \in {1, 2, 3}, d \in {0, 1}}

Samples == [means : MeanPairs, corr : Quarters]

\* a quarter array that is not square (1 x 2): the sign check skips it with
\* means (1, 1), and lets it through to _tileArray with means (1, 2)
OddSamples == [means : MeanPairs, corr : {<< <<RInt(3), One>> >>}]

\* the lists of at most two samples that hold one array that is not square
OddLists ==
    {<<o>> : o \in OddSamples}
        \cup {<<o, q>> : o \in OddSamples, q \in Samples}
        \cup {<<q, o>> : o \in OddSamples, q \in Samples}

RECURSIVE SeqsUpTo(_, _)
SeqsUpTo(S, n) ==
    IF n = 0 THEN {<<>>}
    ELSE LET shorter == SeqsUpTo(S, n - 1)
         IN  shorter \cup {Append(q, x) : q \in shorter, x \in S}

RejectLevels == {<<1, 2>>}

GKConfigs == {SmallConfig}

InitGK ==
    /\ config \in GKConfigs
    /\ SORIdle
    /\ RunIdle
    /\ RegIdle
    /\ EGIdle
    /\ TileIdle
    /\ PIIdle
    /\ CCIdle
    /\ emptyStats = "raises"
    /\ \E smps \in SeqsUpTo(Samples, MaxSamples) \cup OddLists, rl \in {Zero} \cup RejectLevels :
          /\ means = [k \in 1..Len(smps) |-> smps[k].means]
          /\ corrs = [k \in 1..Len(smps) |-> smps[k].corr]
          /\ corrsIn = corrs
          /\ rejectLevelIn = rl
          /\ rejectLevel = DefaultedRejectLevel(rl)
    /\ corrNum = 0
    /\ xcorrList = <<>>
    /\ fullCorr = <<>>
    /\ meanXcorr = <<>>
    /\ gkWarns = {}
    /\ gkKernel = <<>>
    /\ gkPc = "loop"

NextGK == GKSample \/ GKRaise \/ GKStack \/ SORSweep \/ SORExit \/ SORLog \/ GKReturn

SpecGK == InitGK /\ [][NextGK]_vars

\* <<mean, variance, covariance>> of one amplifier for one visit pair
Triple(m, v, c) == [mean |-> RInt(m), var |-> RInt(v), covar |-> RInt(c)]

\* what _calcMeansAndVars returns for a visit pair; the products with 1.3 and
\* 0.7 of these variances are exact in float64
PairRecord(t0, t1) == (ampNames[1] :> t0) @@ (ampNames[2] :> t1)

(***************************************************************************)
(* run called on a bounded set of visit pairs.                             *)
(***************************************************************************)
RunQuarters ==
    {<< <<One, Zero>>, <<Zero, Zero>> >>,
     << <<One, One>>, <<Zero, Zero>> >>,
     << <<RInt(3), Zero>>, <<Zero, Zero>> >>}

RunSamples == [means : {<<One, One>>}, corr : RunQuarters]

RunConfigs ==
    {[SmallConfig EXCEPT !.xcorrCheckRejectLevel = rl, !.level = lv, !.doCalcGains = g] :
        rl \in {One, <<1, 2>>}, lv \in {"AMP", "CCD"}, g \in BOOLEAN}

\* what _calcMeansAndVars returns for a visit pair of run: a pair that passes
\* the sanity check and one that fails it
RunPairRecords ==
    {PairRecord(Triple(1, 1, 1), Triple(1, 1, 1)),
     PairRecord(Triple(1, 11, 1), Triple(1, 1, 1))}

InitRun ==
    /\ config \in RunConfigs
    /\ SORIdle
    /\ GKIdle
    /\ RegIdle
    /\ EGIdle
    /\ TileIdle
    /\ PIIdle
    /\ CCIdle
    /\ emptyStats = "raises"
    /\ xcorrs = [r \in KeySet |-> <<>>]
    /\ runMeans = [r \in KeySet |-> <<>>]
    /\ kernels = <<>>
    /\ visit = 0
    /\ nVisits \in 0..MaxVisits
    /\ prepKeys = <<>>
    /\ regionIdx = 0
    /\ stored = <<>>
    /\ storedGains = <<>>
    /\ runPc = "gains"

NextRun ==
    \/ RunCallEG \/ EGVisit(RunPairRecords) \/ EGStartFits \/ EGLinregressRaises \/ EGCallFix
    \/ RegPassOrigin \/ RegPassFree \/ RegReturn \/ EGCallUnfix \/ EGStoreGain \/ EGReturn
    \/ RunPutGains \/ RunAbortGains
    \/ RunGains \/ RunPrepare \/ RunRegion(RunSamples) \/ RunVisitDone
    \/ RunStartKernels \/ RunCallGK
    \/ GKSample \/ GKRaise \/ GKStack \/ SORSweep \/ SORExit \/ SORLog \/ GKReturn
    \/ RunStoreKernel \/ RunAbort \/ RunPut

SpecRun == InitRun /\ [][NextRun]_vars

(***************************************************************************)
(* _iterativeRegression called on a bounded set of points.                 *)
(***************************************************************************)
\* x is 1, 2, ..., n; every y is a small integer
PointYs == {RInt(v) : v \in 0..3}

RegInputs ==
    UNION {{<<Tuple([k \in 1..n |-> RInt(k)]), ys>> : ys \in [1..n -> PointYs]} :
           n \in 1..MaxPoints}

InitReg ==
    /\ config = DefaultConfig
    /\ SORIdle
    /\ GKIdle
    /\ RunIdle
    /\ EGIdle
    /\ TileIdle
    /\ PIIdle
    /\ CCIdle
    /\ emptyStats = "raises"
    /\ \E xy \in RegInputs, fix \in BOOLEAN, ns \in {0, 1, 2}, mi \in 0..MaxIterReg :
          /\ regXIn = xy[1]
          /\ regYIn = xy[2]
          /\ regFix = fix
          /\ regNSigma = IF ns = 0 THEN config.nSigmaClipRegression ELSE ns
          /\ regMaxIter = IF mi = 0 THEN config.maxIterRegression ELSE mi
    /\ regX = regXIn
    /\ regY = regYIn
    /\ regNIter = 0
    /\ regSlope = Zero
    /\ regIntercept = Zero
    /\ regIndex = {}
    /\ regLog = <<>>
    /\ regOut = <<>>
    /\ regPc = "loop"

NextReg == RegPassOrigin \/ RegPassFree \/ RegReturn

SpecReg == InitReg /\ [][NextReg]_vars

(***************************************************************************)
(* estimateGains called on a bounded list of visit pairs.                  *)
(***************************************************************************)
PairRecords ==
    {PairRecord(Triple(1, 1, 1), Triple(1, 1, 1)),
     PairRecord(Triple(2, 2, 2), Triple(2, 2, 2)),
     PairRecord(Triple(1, 11, 1), Triple(1, 1, 1)),
     PairRecord(Triple(1, 1, 2), Triple(1, 1, 1)),
     PairRecord(Triple(2, 10, 13), Triple(2, 2, 2)),
     PairRecord(Triple(2, 10, 7), Triple(2, 2, 2)),
     PairRecord(Triple(1, 1, 1), Triple(2, 10, 6)),
     PairRecord(Triple(1, 0, 0), Triple(1, 1, 1)),
     PairRecord(Triple(2, 0, 0), Triple(2, 2, 2))}

InitEG ==
    /\ config \in {[DefaultConfig EXCEPT !.fixPtcThroughOrigin = f] : f \in BOOLEAN}
    /\ SORIdle
    /\ GKIdle
    /\ RunIdle
    /\ RegIdle
    /\ TileIdle
    /\ PIIdle
    /\ CCIdle
    /\ emptyStats = "raises"
    /\ egPairs = <<>>
    /\ egNPairs \in 0..MaxVisits
    /\ ampMeans = [a \in {ampNames[k] : k \in 1..Len(ampNames)} |-> <<>>]
    /\ ampVariances = [a \in {ampNames[k] : k \in 1..Len(ampNames)} |-> <<>>]
    /\ ampCoVariances = [a \in {ampNames[k] : k \in 1..Len(ampNames)} |-> <<>>]
    /\ egWarns = {}
    /\ egAmp = 0
    /\ slopeFix = Zero
    /\ egGains = <<>>
    /\ egNomGains = <<>>
    /\ egOut = <<>>
    /\ egPc = "visits"

NextEG ==
    \/ EGVisit(PairRecords) \/ EGStartFits \/ EGLinregressRaises \/ EGCallFix
    \/ EGCallUnfix \/ EGStoreGain \/ EGReturn
    \/ RegPassOrigin \/ RegPassFree \/ RegReturn

SpecEG == InitEG /\ [][NextEG]_vars

(***************************************************************************)
(* _tileArray called on a bounded set of arrays, square or not.            *)
(***************************************************************************)
\* the r x k array with in_array[i, j] = a*i + b*j + c
Ramp(r, k, a, b, c) ==
    Tuple([i \in 1..r |-> Tuple([j \in 1..k |-> RInt(a * (i - 1) + b * (j - 1) + c)])])

\* with r = k = 3, a = 3, b = 1, c = 1: the example of the docstring
TileInputs ==
    {Ramp(r, k, a, b, c) : r \in 1..MaxTileSide, k \in 1..MaxTileSide,
                           a \in 0..3, b \in 0..3, c \in 0..2}

InitTile ==
    /\ config = DefaultConfig
    /\ SORIdle
    /\ GKIdle
    /\ RunIdle
    /\ RegIdle
    /\ EGIdle
    /\ PIIdle
    /\ CCIdle
    /\ emptyStats = "raises"
    /\ tileIn \in TileInputs
    /\ tileArg = tileIn
    /\ tileOut = <<>>
    /\ tilePc = "called"

NextTile == TileAssertFails \/ TileReturn

SpecTile == InitTile /\ [][NextTile]_vars

(***************************************************************************)
(* _prepareImage called on a bounded set of exposures.                     *)
(***************************************************************************)
\* the pixels of one amplifier
AmpImages ==
    {Ramp(AmpSide, AmpSide, a, b, c) : a \in 0..1, b \in 0..1, c \in 1..MaxPixel}

\* nPixBorderXCorr is 1, or 0, which leaves the statistics no pixel
PIConfigs == {[SmallConfig EXCEPT !.nPixBorderXCorr = b] : b \in {0, 1}}

InitPI ==
    /\ config \in PIConfigs
    /\ SORIdle
    /\ GKIdle
    /\ RunIdle
    /\ RegIdle
    /\ EGIdle
    /\ TileIdle
    /\ CCIdle
    /\ emptyStats \in {"raises", "nan"}
    /\ piExp \in [{ampNames[k] : k \in 1..Len(ampNames)} -> AmpImages]
    /\ piGains \in [{ampNames[k] : k \in 1..Len(ampNames)} -> {One, RInt(2)}]
    /\ piLevel \in {"AMP", "CCD"}
    /\ piMi = piExp
    /\ piTemp = piExp
    /\ piAmp = 0
    /\ rescaleIm = ""
    /\ piMeans = <<>>
    /\ returnAreas = <<>>
    /\ piOut = <<>>
    /\ piPc = "loop"

NextPI == PIAmp \/ PIReturn

SpecPI == InitPI /\ [][NextPI]_vars

(***************************************************************************)
(* The two image functions, each called on a bounded set of images:        *)
(* _prepareImage as under SpecPI, or _crossCorrelate on a pair of images   *)
(* whose cropped region has sides of 2 or 3 pixels (one bin of the         *)
(* background), with maxLag from 0 to MaxLagCC.                            *)
(***************************************************************************)
CCSides == {4, 5}

CCImages0 ==
    {Ramp(w, h, a, b, 1) : w \in CCSides, h \in CCSides, a \in 0..1, b \in 0..1}

CCImages1 ==
    {Ramp(w, h, 0, b, 0) : w \in CCSides, h \in CCSides, b \in 0..1}

CCBinSizes == {2, 3}

CCConfigs ==
    {[SmallConfig EXCEPT !.maxLag = l, !.backgroundBinSize = b] :
        l \in 0..MaxLagCC, b \in CCBinSizes}

InitCC ==
    /\ config \in CCConfigs
    /\ SORIdle
    /\ GKIdle
    /\ RunIdle
    /\ RegIdle
    /\ EGIdle
    /\ TileIdle
    /\ PIIdle
    /\ \E maskedIm0 \in CCImages0, maskedIm1 \in CCImages1 :
          /\ Len(maskedIm0) = Len(maskedIm1)
          /\ Len(maskedIm0[1]) = Len(maskedIm1[1])
          /\ ccHeap = ("maskedIm0" :> maskedIm0) @@ ("maskedIm1" :> maskedIm1)
    /\ emptyStats \in {"raises", "nan"}
    /\ diff = <<>>
    /\ dim0 = <<>>
    /\ xcorr = <<>>
    /\ xlag = 0
    /\ ylag = 0
    /\ ccOut = <<>>
    /\ ccPc = "diff"

InitImages == InitPI \/ InitCC

NextImages == PIAmp \/ PIReturn \/ CCDiff \/ CCBackground \/ CCDim0 \/ CCLag \/ CCReturn

SpecImages == InitImages /\ [][NextImages]_vars

(***************************************************************************)
(* Properties of _generateKernel, stated on the values passed in           *)
(* (corrsIn, means) and checked under SpecGK.                              *)
(***************************************************************************)
\* the [0,0] entry of input sample k (1-based) after subtracting mean1+mean2
Corrected00(k) == RSub(corrsIn[k][1][1], RAdd(means[k][1], means[k][2]))

\* the normalised, tiled surface of input sample k
FullSurface(k) ==
    TileArray(Normalise(SubtractMeans(corrsIn[k], means[k][1], means[k][2]),
                        means[k][1], means[k][2]))

\* sample k passes the sign check of the code: the corrected [0,0] is not positive
PassesSign(k) == ~RLt(Zero, Corrected00(k))

\* sample k passes the ratio check: |sum(full)| does not exceed rejectLevel*sum(|full|)
PassesRatio(k) ==
    ~RLt(RMul(rejectLevel, ArrSum(ArrAbs(FullSurface(k)))), RAbs(ArrSum(FullSurface(k))))

ValidSample(k) == PassesSign(k) /\ PassesRatio(k)

\* every sample passed in is a correlation surface: a square quarter array
SquareSamples == \A k \in 1..Len(corrsIn) : IsSquare(corrsIn[k])

\* the surfaces of the valid samples among the first n, in input order
RECURSIVE ValidSurfaces(_)
ValidSurfaces(n) ==
    IF n = 0 THEN <<>>
    ELSE IF ValidSample(n) THEN Append(ValidSurfaces(n - 1), FullSurface(n))
         ELSE ValidSurfaces(n - 1)

\* C1: for samples that are square quarter arrays, the samples that enter the
\* stack are exactly those that pass the sign check and the ratio check; every
\* other sample is skipped with a warning and without raising; with at least
\* one valid sample the call does not raise, and the solver input and the
\* returned kernel are those of the valid samples alone.
C1_StackIsValidSamples ==
    (gkPc # "idle" /\ SquareSamples) =>
        /\ xcorrList = ValidSurfaces(corrNum)
        /\ {w[1] : w \in gkWarns} = {k - 1 : k \in {n \in 1..corrNum : ~ValidSample(n)}}
        /\ gkPc # "asserted"
        /\ (ValidSurfaces(Len(corrsIn)) # <<>> => gkPc # "raised")
        /\ (gkPc \in {"sor", "returned"} =>
               LET valid == ValidSurfaces(Len(corrsIn))
               IN  /\ meanXcorr = StackMean(valid, valid[1])
                   /\ source = meanXcorr)
        /\ (gkPc = "returned" => gkKernel = sorOut)

C1_Witness ==
    /\ gkPc = "returned"
    /\ Len(corrsIn) = 2
    /\ Len(xcorrList) = 1
    /\ gkWarns # {}

\* C2: on square quarter arrays _generateKernel raises its RuntimeError exactly
\* when the loop has discarded every sample (an empty list included), and then
\* _SOR has not been called; on no list does it raise that error with a valid
\* sample retained.
C2_RaisesIffAllDiscarded ==
    gkPc \notin {"idle", "loop"} =>
        /\ SquareSamples =>
               ((gkPc = "raised") <=> (\A k \in 1..Len(corrsIn) : ~ValidSample(k)))
        /\ (gkPc = "raised" => xcorrList = <<>> /\ corrNum = Len(corrsIn))
        /\ (gkPc = "raised" => sorPc = "idle" /\ halfSweeps = 0 /\ gkKernel = <<>>)

C2_Witness ==
    /\ gkPc = "raised"
    /\ Len(corrsIn) = 2
    /\ \E w1 \in gkWarns, w2 \in gkWarns : w1[2] = "sign" /\ w2[2] = "xcorr"

\* C3: the solver input has at every position (i, j) the clipped mean over the
\* retained stack of the surfaces' values at the same position (i, j).
C3_SamePosition ==
    gkPc \in {"sor", "returned"} =>
        \A i \in 1..Side(source) : \A j \in 1..Side(source) :
            source[i][j] = MeanClip(Tuple([k \in 1..Len(xcorrList) |-> xcorrList[k][i][j]]),
                                    config.nSigmaClipKernelGen)

\* C4: every sample whose corrected [0,0] is non-negative (zero included) is
\* skipped by the sign check.
C4_NonNegativeRejected ==
    gkPc # "idle" =>
        \A k \in 1..corrNum :
            ~RLt(Corrected00(k), Zero) => <<k - 1, "sign">> \in gkWarns

(***************************************************************************)
(* Properties of run, checked under SpecRun.                               *)
(***************************************************************************)
\* C5: at AMP level an error raised by one region's _generateKernel does not
\* end run.
C5_RegionErrorIsolated ==
    (config.level = "AMP" /\ gkPc = "raised") => runPc # "raised"

(***************************************************************************)
(* Properties of _SOR, checked under SpecSOR.                              *)
(***************************************************************************)
AllZero(arr) == \A i \in 1..Len(arr) : \A j \in 1..Len(arr[i]) : arr[i][j] = Zero

\* the convergence criterion on the values of the state
CriterionMet == RLt(outError, RMul(eLevel, inError))

\* C6: for an all-zero source _SOR stops after one iteration and logs success.
C6_ZeroSourceConverges ==
    (sorPc = "returned" /\ AllZero(source)) => (sorLog = "info" /\ halfSweeps <= 2)

\* C7: for a square all-zero source _SOR returns the all-zero array of the
\* shape of the source.
C7_ZeroSourceZeroResult ==
    (sorPc = "returned" /\ AllZero(source)) => sorOut = Zeros(Side(source))

C7_Witness ==
    /\ sorPc = "returned"
    /\ AllZero(source)
    /\ Side(source) = 2
    /\ halfSweeps = 4

\* C8: the loop runs at most 2*maxIter half-sweeps; it goes on after a
\* half-sweep exactly when the sum of absolute residuals is not strictly below
\* eLevel times the initial residual sum, and stops at once when it is.
C8_LoopBound ==
    sorPc # "idle" =>
        /\ halfSweeps <= 2 * maxIter
        /\ (halfSweeps > 0 => outError = ArrSum(ArrAbs(resid)))
        /\ (sorPc = "loop" /\ halfSweeps > 0 => ~CriterionMet)
        /\ (sorPc \in {"log", "returned"} /\ halfSweeps < 2 * maxIter => CriterionMet)
        /\ (sorPc \in {"log", "returned"} /\ ~CriterionMet => halfSweeps = 2 * maxIter)

C8_Witness ==
    /\ sorPc = "returned"
    /\ halfSweeps > 0
    /\ halfSweeps < 2 * maxIter
    /\ CriterionMet

\* C9: _SOR returns in every case; it logs the warning exactly when the budget
\* of 2*maxIter half-sweeps ran out with the criterion unmet, and success
\* otherwise; the value returned is the interior of the last grid, of the
\* shape of the source.
C9_WarnIffExhausted ==
    sorPc = "returned" =>
        /\ (sorLog = "warn") <=> (halfSweeps = 2 * maxIter /\ ~CriterionMet)
        /\ (sorLog = "info") <=> ~(halfSweeps = 2 * maxIter /\ ~CriterionMet)
        /\ Side(sorOut) = Side(source)
        /\ \A i \in 1..Side(source) : \A j \in 1..Side(source) :
               sorOut[i][j] = func[i + 1][j + 1]

C9_Witness ==
    /\ sorPc = "returned"
    /\ sorLog = "warn"
    /\ ~AllZero(source)
    /\ ~AllZero(sorOut)

(***************************************************************************)
(* Properties of _iterativeRegression                                      *)
(***************************************************************************)
\* the fit of the branch taken, on the points x, y
BranchFit(x, y) == IF regFix THEN <<LstsqOrigin(x, y), Zero>> ELSE LstsqLine(x, y)

\* C10: _iterativeRegression makes at most maxIter passes and is never stuck
\* short of returning; every pass but the last removes at least one point, the
\* last pass is the first one that removes none (or is pass number maxIter), and
\* the value returned is the fit of that last pass, made on the points still
\* retained
C10_RegressionTerminates ==
    /\ regNIter <= regMaxIter
    /\ Len(regLog) = regNIter
    /\ regPc = "loop" => regNIter < regMaxIter
    /\ \A k \in 2..Len(regLog) : regLog[k][2] < regLog[k - 1][2]
    /\ Len(regX) >= 1
    /\ (regPc = "loop" /\ regNIter >= 1) => Len(regX) < regLog[regNIter][2]
    /\ regPc \in {"return", "returned"} =>
          /\ regNIter >= 1
          /\ Len(regX) = regLog[regNIter][2]
    /\ regPc = "returned" => regOut = BranchFit(regX, regY)

\* a call that returned before maxIter passes, after a pass that removed points
C10_Witness ==
    /\ regPc = "returned"
    /\ regNIter >= 2
    /\ regNIter < regMaxIter
    /\ Len(regX) < Len(regXIn)

\* C11: when _iterativeRegression leaves the loop after fewer than maxIter
\* passes, the final pass flagged none of the points still retained (every
\* flagged point, position 0 included, would have been removed and refitted).
C11_NoFlaggedPointRetained ==
    (regPc \in {"return", "returned"} /\ regNIter < regMaxIter) => regIndex = {}

\* C12: _iterativeRegression returns a slope only if every pass started with
\* at least 2 points.
C12_TwoPointsNeeded ==
    regPc = "returned" => \A k \in 1..Len(regLog) : regLog[k][2] >= 2

(***************************************************************************)
(* Properties of estimateGains, stated on the values _calcMeansAndVars     *)
(* returned (egPairs) and checked under SpecEG.                            *)
(***************************************************************************)
AmpSet == {ampNames[k] : k \in 1..Len(ampNames)}

\* the covariance lies within 30% of the variance, the bounds included
InBand(t) ==
    /\ ~RLt(RMul(t.var, <<13, 10>>), t.covar)
    /\ ~RLt(t.covar, RMul(t.var, <<7, 10>>))

\* the field named of every sample of the list
Fields(samples, field) == Tuple([k \in 1..Len(samples) |-> samples[k][field]])

\* the lists C13 describes, which are not the lists of the code (those are
\* BandKept below): the samples of amplifier a among the first n pairs, a
\* pair's sample being kept when the amplifier's own sanity and 30% checks pass,
\* whatever the other amplifiers' checks give
RECURSIVE OwnKept(_, _)
OwnKept(a, n) ==
    IF n = 0 THEN <<>>
    ELSE LET t == egPairs[n][a]
         IN  IF ~SanityFails(t) /\ InBand(t)
             THEN Append(OwnKept(a, n - 1), t)
             ELSE OwnKept(a, n - 1)

\* C13: a failed sanity check rejects the pair for the failing amplifier only:
\* every amplifier keeps the sample of every pair for which its own sanity
\* check and its own 30% check pass.
C13_SanityPerRegion ==
    egPc # "idle" =>
        \A a \in AmpSet :
            /\ ampMeans[a] = Fields(OwnKept(a, Len(egPairs)), "mean")
            /\ ampCoVariances[a] = Fields(OwnKept(a, Len(egPairs)), "covar")

\* the pair passed the sanity check: no amplifier failed it
PairSane(rec) == \A a \in AmpSet : ~SanityFails(rec[a])

\* the samples of amplifier a among the first n pairs, keeping a sample when
\* the pair passed the sanity check and the sample is within the band
RECURSIVE BandKept(_, _)
BandKept(a, n) ==
    IF n = 0 THEN <<>>
    ELSE IF PairSane(egPairs[n]) /\ InBand(egPairs[n][a])
         THEN Append(BandKept(a, n - 1), egPairs[n][a])
         ELSE BandKept(a, n - 1)

\* C14: of a pair that passed the sanity check, an amplifier's sample is
\* dropped (with the warning) exactly when variance*1.3 < covariance or
\* variance*0.7 > covariance, the bounds being kept, whatever happens to the
\* other amplifier; the three lists of an amplifier always have equal length.
C14_DroppedIffOutOfBand ==
    egPc # "idle" =>
        \A a \in AmpSet :
            /\ ampMeans[a] = Fields(BandKept(a, Len(egPairs)), "mean")
            /\ ampVariances[a] = Fields(BandKept(a, Len(egPairs)), "var")
            /\ ampCoVariances[a] = Fields(BandKept(a, Len(egPairs)), "covar")
            /\ Len(ampMeans[a]) = Len(ampVariances[a])
            /\ Len(ampVariances[a]) = Len(ampCoVariances[a])
            /\ \A n \in 1..Len(egPairs) :
                   <<n - 1, a, "dropped">> \in egWarns
                       <=> (PairSane(egPairs[n]) /\ ~InBand(egPairs[n][a]))

\* two pairs passed the sanity check: the first amplifier kept a sample at the
\* upper bound and lost one, the second amplifier kept both
C14_Witness ==
    /\ Len(egPairs) = 2
    /\ Len(ampMeans[ampNames[1]]) = 1
    /\ Len(ampMeans[ampNames[2]]) = 2
    /\ ampCoVariances[ampNames[1]] = <<RInt(13)>>
    /\ ampVariances[ampNames[1]] = <<RInt(10)>>
    /\ \E w \in egWarns : w[2] = ampNames[1] /\ w[3] = "dropped"

\* the fit of the branch fix on the points x, y
FitOf(x, y, fix) == IF fix THEN <<LstsqOrigin(x, y), Zero>> ELSE LstsqLine(x, y)

\* what _iterativeRegression(x, y, fixThroughOrigin=fix) can return, entered
\* with nIter passes made: one value, unless a residual lies on a clipping bound
RECURSIVE RegressionsOf(_, _, _, _, _, _)
RegressionsOf(x, y, fix, nSigma, mi, n) ==
    LET fit == FitOf(x, y, fix)
    IN  UNION {IF LoopBreaks(index, n + 1, mi) THEN {fit}
               ELSE RegressionsOf(Delete(x, index), Delete(y, index), fix, nSigma, mi, n + 1) :
               index \in OutlierIndexes(Residuals(x, y, fit[1], fit[2]), nSigma)}

\* the slopes of the branch the configuration selects, for amplifier a
SelectedSlopes(a) ==
    {r[1] : r \in RegressionsOf(ampMeans[a], ampCoVariances[a], config.fixPtcThroughOrigin,
                                config.nSigmaClipRegression, config.maxIterRegression, 0)}

\* C15: the gain table estimateGains returns has exactly one entry per
\* amplifier, and the entry is 1/slope for the slope _iterativeRegression gives
\* on the amplifier's retained (mean, covariance) samples in the branch
\* fixPtcThroughOrigin selects.
C15_GainIsInverseSlope ==
    egPc = "done" =>
        /\ DOMAIN egOut[1] = AmpSet
        /\ \A a \in AmpSet :
               Zero \notin SelectedSlopes(a) =>
                   egOut[1][a] \in {RDiv(One, sl) : sl \in SelectedSlopes(a)}

\* a table returned for an amplifier whose two branches give different slopes
C15_Witness ==
    /\ egPc = "done"
    /\ Len(ampMeans[ampNames[1]]) = 2
    /\ LstsqOrigin(ampMeans[ampNames[1]], ampCoVariances[ampNames[1]])
           # LstsqLine(ampMeans[ampNames[1]], ampCoVariances[ampNames[1]])[1]
    /\ egOut[1][ampNames[1]] # Inf

\* C16: no gain enters the table for an amplifier whose selected slope is zero.
C16_ZeroSlopeFails ==
    egPc # "idle" => \A a \in DOMAIN egGains : Zero \notin SelectedSlopes(a)

(***************************************************************************)
(* Properties of _tileArray, checked under SpecTile.                       *)
(***************************************************************************)
\* the example of the docstring of _tileArray
DocInput == <<<<RInt(1), RInt(2), RInt(3)>>,
              <<RInt(4), RInt(5), RInt(6)>>,
              <<RInt(7), RInt(8), RInt(9)>>>>

DocOutput == <<<<RInt(9), RInt(8), RInt(7), RInt(8), RInt(9)>>,
               <<RInt(6), RInt(5), RInt(4), RInt(5), RInt(6)>>,
               <<RInt(3), RInt(2), RInt(1), RInt(2), RInt(3)>>,
               <<RInt(6), RInt(5), RInt(4), RInt(5), RInt(6)>>,
               <<RInt(9), RInt(8), RInt(7), RInt(8), RInt(9)>>>>

\* C17: for a square quarter Q of side n, _tileArray returns T of side 2n-1
\* with T[c+a, c+b] = Q[|a|, |b|] for every -(n-1) <= a, b <= n-1, c = n-1; the
\* example of the docstring gives the output shown there.
C17_TileMapsQuarter ==
    tilePc = "returned" =>
        LET n == Len(tileArg)
            c == n - 1
        IN  /\ Len(tileOut) = 2 * n - 1
            /\ \A i \in 1..Len(tileOut) : Len(tileOut[i]) = 2 * n - 1
            /\ \A a \in (0 - c)..c : \A b \in (0 - c)..c :
                   At(tileOut, c + a, c + b) = At(tileArg, Abs(a), Abs(b))
            /\ (tileArg = DocInput => tileOut = DocOutput)

\* the example of the docstring has been tiled
C17_Witness ==
    /\ tilePc = "returned"
    /\ tileArg = DocInput
    /\ tileOut = DocOutput

\* C18: _tileArray(Q) is unchanged by the reflection of its rows about the
\* center row and by the reflection of its columns about the center column,
\* and its center entry is Q[0, 0].
C18_TileSymmetric ==
    tilePc = "returned" =>
        LET c == Len(tileArg) - 1
        IN  /\ \A i \in 0..(2 * c) : \A j \in 0..(2 * c) :
                   /\ At(tileOut, i, j) = At(tileOut, 2 * c - i, j)
                   /\ At(tileOut, i, j) = At(tileOut, i, 2 * c - j)
            /\ At(tileOut, c, c) = At(tileArg, 0, 0)

\* a quarter of side 3 with nine different entries has been tiled
C18_Witness ==
    /\ tilePc = "returned"
    /\ Len(tileArg) = 3
    /\ Cardinality({At(tileArg, i, j) : i \in 0..2, j \in 0..2}) = 9
    /\ Len(tileOut) = 5

\* C19: given an array that is not square _tileArray fails on its shape test
\* and returns nothing; it returns for a square one; in no case is the array
\* passed in modified.
C19_NonSquareFails ==
    /\ tilePc # "idle" => tileIn = tileArg
    /\ tilePc \in {"returned", "raised"} =>
          /\ (tilePc = "raised") <=> (\E i \in 1..Len(tileArg) : Len(tileArg[i]) # Len(tileArg))
          /\ (tilePc = "raised" => tileOut = <<>>)

\* an array with more columns than rows has been refused
C19_Witness ==
    /\ tilePc = "raised"
    /\ Len(tileArg) = 2
    /\ Len(tileArg[1]) = 3
    /\ tileOut = <<>>

(***************************************************************************)
(* Properties of _prepareImage, checked under SpecPI.                      *)
(***************************************************************************)
\* C20: at level CCD _prepareImage returns one working image and one mean,
\* both keyed by the detector id; the image covers the bbox of every amplifier,
\* and no gain has been applied to the pixels.
C20_CcdWholeSensor ==
    (piPc = "returned" /\ piLevel = "CCD") =>
        /\ DOMAIN piOut[1] = {detName}
        /\ DOMAIN piOut[2] = {detName}
        /\ piOut[1][detName].amps = AmpSet
        /\ piTemp = piExp

(***************************************************************************)
(* _SOR: the relaxation factor, the place of the convergence test and the  *)
(* cells a half-sweep writes.                                              *)
(***************************************************************************)
\* the Chebyshev sequence 1, 1/(1 - rho^2/2), 1/(1 - rho^2*omega/4), ...
RECURSIVE Chebyshev(_, _)
Chebyshev(k, rhoSq) ==
    IF k = 0 THEN One
    ELSE IF k = 1 THEN RDiv(One, RSub(One, RDiv(rhoSq, RInt(2))))
    ELSE RDiv(One, RSub(One, RDiv(RMul(rhoSq, Chebyshev(k - 1, rhoSq)), RInt(4))))

\* C24 (as stated): omega steps once per full iteration, so that the two
\* half-sweeps of full iteration k both use the k-th value of the sequence.
C24_OmegaPerFullIteration ==
    sorPc = "loop" => omega = Chebyshev(nIter \div 2, RhoSpeSq(Side(source)))

\* C24: omega steps once per half-sweep: half-sweep k (counted from 0) of
\* _SOR uses the k-th value of the sequence 1, 1/(1 - rho^2/2),
\* omega' = 1/(1 - rho^2*omega/4).
C24_OmegaPerHalfSweep ==
    sorPc # "idle" => omega = Chebyshev(nIter, RhoSpeSq(Side(source)))

C24_Witness ==
    /\ sorPc = "loop"
    /\ nIter >= 2
    /\ omega # One
    /\ omega # Chebyshev(nIter \div 2, RhoSpeSq(Side(source)))

\* the loop of _SOR was left by the break of the convergence test
StoppedByConvergence == sorPc \in {"log", "returned"} /\ nIter < halfSweeps

\* C25: whenever the loop of _SOR stops because of convergence, an even
\* number of half-sweeps has been executed.
C25_ConvergesAfterFullIteration ==
    StoppedByConvergence => halfSweeps % 2 = 0

\* the cells (0-based) of a grid of side m, and its interior
GridCells(m) == (0..(m - 1)) \X (0..(m - 1))

InteriorCells(m) == (1..(m - 2)) \X (1..(m - 2))

SeqToSet(s) == {s[k] : k \in 1..Len(s)}

NoRepeats(s) == \A k, l \in 1..Len(s) : s[k] = s[l] => k = l

\* the grid has side N+2 and a zero boundary; the cells of half-sweep nIter
\* are the interior cells with (i+j) % 2 = nIter % 2, each once, and those of
\* two consecutive half-sweeps are the interior cells, each once
C26_GridInv ==
    sorPc # "idle" =>
        LET m == Side(func)
            cur == SweepCells(nIter, m)
            nxt == SweepCells(nIter + 1, m)
        IN  /\ m = Side(source) + 2
            /\ \A i \in 1..m : Len(func[i]) = m
            /\ \A c \in GridCells(m) \ InteriorCells(m) : At(func, c[1], c[2]) = Zero
            /\ SeqToSet(cur) = {c \in InteriorCells(m) : (c[1] + c[2]) % 2 = nIter % 2}
            /\ SeqToSet(nxt) = {c \in InteriorCells(m) : (c[1] + c[2]) % 2 = (nIter + 1) % 2}
            /\ NoRepeats(cur \o nxt)
            /\ SeqToSet(cur \o nxt) = InteriorCells(m)

\* a half-sweep changes func and resid only at interior cells of its parity
C26_SweepFrame ==
    SORSweep =>
        \A c \in GridCells(Side(func)) :
            (At(func', c[1], c[2]) # At(func, c[1], c[2])
             \/ At(resid', c[1], c[2]) # At(resid, c[1], c[2]))
            => /\ c \in InteriorCells(Side(func))
               /\ (c[1] + c[2]) % 2 = (halfSweeps' - 1) % 2

\* C26: in _SOR the grid has side N+2, a half-sweep writes only interior
\* cells whose index sum has the parity of the half-sweep, two consecutive
\* half-sweeps update every interior cell exactly once, and the boundary of
\* the grid is zero in every reachable state.
C26_CheckerboardGrid == []C26_GridInv /\ [][C26_SweepFrame]_vars

C26_Witness ==
    /\ sorPc = "loop"
    /\ halfSweeps >= 2
    /\ Side(source) = 2
    /\ \E c, d \in InteriorCells(Side(func)) :
           /\ (c[1] + c[2]) % 2 = 0
           /\ (d[1] + d[2]) % 2 = 1
           /\ At(func, c[1], c[2]) # Zero
           /\ At(func, d[1], d[2]) # Zero

(***************************************************************************)
(* _generateKernel: the caller's arrays, the ratio check and the order of  *)
(* the samples.                                                            *)
(***************************************************************************)
\* C27: _generateKernel leaves the caller's corrs unchanged: when the call
\* has ended, every array of corrs holds the values it was passed with, so
\* that a second call on the same lists sees the same samples.
C27_InputsUnchanged ==
    gkPc \in {"returned", "raised", "asserted"} => corrs = corrsIn

\* xcorrCheck of input sample k does not exceed 1 (0/0 is not a number and
\* exceeds nothing)
RatioAtMostOne(k) ==
    ~RLt(ArrSum(ArrAbs(FullSurface(k))), RAbs(ArrSum(FullSurface(k))))

\* C28: a rejectLevel of 0 (or none) is replaced by config.xcorrCheckRejectLevel;
\* xcorrCheck never exceeds 1, so with rejectLevel >= 1 the ratio check rejects
\* no sample and every sample that passes the sign check is retained
\* (samples being square quarter arrays).
C28_RatioCheckNeverRejects ==
    (gkPc # "idle" /\ SquareSamples) =>
        /\ rejectLevel = IF rejectLevelIn = Zero THEN config.xcorrCheckRejectLevel
                         ELSE rejectLevelIn
        /\ \A k \in 1..Len(corrsIn) : PassesSign(k) => RatioAtMostOne(k)
        /\ ~RLt(rejectLevel, One) =>
               /\ \A w \in gkWarns : w[2] = "sign"
               /\ \A k \in 1..corrNum : PassesSign(k) <=> <<k - 1, "sign">> \notin gkWarns
               /\ Len(xcorrList) = Cardinality({k \in 1..corrNum : PassesSign(k)})

C28_Witness ==
    /\ gkPc = "returned"
    /\ rejectLevelIn = Zero
    /\ rejectLevel = One
    /\ Len(corrsIn) = 2
    /\ Len(xcorrList) = 2
    /\ \E k \in 1..2 : ArrSum(ArrAbs(FullSurface(k))) = RAbs(ArrSum(FullSurface(k)))
    /\ \E k \in 1..2 : RLt(RAbs(ArrSum(FullSurface(k))), ArrSum(ArrAbs(FullSurface(k))))

\* the surface of a sample given by its values: a pair of means and a corr
SampleSurface(m, c) == TileArray(Normalise(SubtractMeans(c, m[1], m[2]), m[1], m[2]))

\* the decision on a sample as a function of the sample and rejectLevel alone
SampleRetained(m, c, rl) ==
    /\ ~RLt(Zero, RSub(c[1][1], RAdd(m[1], m[2])))
    /\ ~RLt(RMul(rl, ArrSum(ArrAbs(SampleSurface(m, c)))),
            RAbs(ArrSum(SampleSurface(m, c))))

\* the input positions (1-based) the loop has examined and not skipped
RetainedSamples == {k \in 1..corrNum : \A w \in gkWarns : w[1] # k - 1}

Perms(n) == {p \in [1..n -> 1..n] : \A i, j \in 1..n : p[i] = p[j] => i = j}

\* the set of surfaces retained from the input lists reordered by p
RetainedUnder(p) ==
    {SampleSurface(means[p[k]], corrsIn[p[k]]) :
        k \in {j \in 1..Len(corrsIn) :
                  SampleRetained(means[p[j]], corrsIn[p[j]], rejectLevel)}}

\* C23: the decisions of _generateKernel are per sample: whether a sample is
\* retained depends on its own means and corr (and rejectLevel) only, not on
\* its position or on the other samples, so every permutation of the sample
\* list retains the same set of surfaces (samples being square quarter
\* arrays).  Stated on the states of the loop, its last state included: no
\* later step changes the stack or the warnings.
C23_OrderIndependent ==
    (gkPc = "loop" /\ SquareSamples) =>
        /\ \A k \in 1..corrNum :
               k \in RetainedSamples <=> SampleRetained(means[k], corrsIn[k], rejectLevel)
        /\ Len(xcorrList) = Cardinality(RetainedSamples)
        /\ corrNum = Len(corrsIn) =>
               \A p \in Perms(Len(corrsIn)) : SeqToSet(xcorrList) = RetainedUnder(p)

C23_Witness ==
    /\ gkPc = "returned"
    /\ Len(corrsIn) = 2
    /\ corrsIn[1] # corrsIn[2]
    /\ RetainedSamples = {2}
    /\ xcorrList = <<SampleSurface(means[2], corrsIn[2])>>

(***************************************************************************)
(* Properties of _prepareImage and _crossCorrelate, checked under          *)
(* SpecImages.                                                             *)
(***************************************************************************)
\* a step taken while _prepareImage runs leaves the pixels of the caller's
\* exposure alone
PrepareKeepsExposure == piPc = "loop" => piExp' = piExp

\* a step taken while _crossCorrelate runs leaves the pixels of both input
\* images alone
CorrelateKeepsInputs ==
    ccPc \in {"diff", "background", "dim0", "loop"} =>
        /\ ccHeap'["maskedIm0"] = ccHeap["maskedIm0"]
        /\ ccHeap'["maskedIm1"] = ccHeap["maskedIm1"]

\* C21: _prepareImage never changes the pixels of the caller's exposure and
\* _crossCorrelate never changes either of its input images: both work on a
\* clone.
C21_InputsNotModified == [][PrepareKeepsExposure /\ CorrelateKeepsInputs]_vars

C21_Witness ==
    /\ ccPc = "returned"
    /\ diff.obj = "diff"
    /\ Pixels(ccHeap, diff) # Pixels(ccHeap, [diff EXCEPT !.obj = "maskedIm0"])
    /\ ccOut[1][1] \notin {Zero, NaN}

\* the sides of the border-cropped difference image
CroppedTooSmall == diff.w <= config.maxLag \/ diff.h <= config.maxLag

\* C22: _crossCorrelate fails and returns no array whenever the height or the
\* width of the border-cropped difference is <= maxLag, and otherwise returns
\* an array of (maxLag+1) x (maxLag+1).
C22_FailsIffRegionTooSmall ==
    ccPc \in {"returned", "raised"} =>
        /\ CroppedTooSmall => (ccPc = "raised" /\ ccOut = <<>>)
        /\ ~CroppedTooSmall =>
               /\ ccPc = "returned"
               /\ Len(ccOut) = config.maxLag + 1
               /\ \A i \in 1..Len(ccOut) : Len(ccOut[i]) = config.maxLag + 1

====
